---- MODULE Spec2Model ----
(***************************************************************************)
(* Model of the zpe.zpecloud connection plugin: one Connection object      *)
(* running one exec_command / put_file / fetch_file against ZPE Cloud.     *)
(*                                                                         *)
(* The environment is the HTTP layer: every request made through the       *)
(* requests session returns a Response (status_code, reason, text); the    *)
(* response is chosen nondeterministically from small sets.  Wall-clock    *)
(* time is an integer number of seconds: it advances by the slept delay    *)
(* and, at each reading of the clock in the loop, by the time the request  *)
(* before it took.                                                         *)
(*                                                                         *)
(* Python values: None, str and bytes are records [t, s, enc]; s is the    *)
(* text as a sequence of pieces, enc the stack of encodings (zip, base64)  *)
(* that were applied to it.  JSON objects are records whose DOMAIN is the  *)
(* set of keys present.                                                    *)
(***************************************************************************)
EXTENDS Integers, Sequences, FiniteSets, TLC

VARIABLES
    pc,                         \* position of the running operation
    op,                         \* "", "exec", "put", "fetch"
    become,                     \* self.become is not None
    executable,                 \* self._play_context.executable
    host_zpecloud_id,           \* self.host_zpecloud_id
    timeout_wait_job_finish,    \* self.timeout_wait_job_finish
    max_delay_wait_job_finish,  \* self.max_delay_wait_job_finish
    max_file_size_put_file,     \* self.max_file_size_put_file
    cmd,                        \* command handed to exec_command
    profile_content,            \* rendered script
    profile_id,                 \* id returned by _create_profile
    job_id,                     \* id returned by _apply_profile
    request_attempt,            \* local of _wait_job_to_finish
    start_time,                 \* local of _wait_job_to_finish
    now,                        \* wall clock, time.time()
    wait_ret,                   \* tuple returned by _wait_job_to_finish
    outcome,                    \* branch by which the poller ended
    result,                     \* value returned by the operation
    raised,                     \* exception raised by the operation
    local_out,                  \* content of fetch_file's local out_path
    last_resp,                  \* last get_job response received
    last_output,                \* what the download of output_file returned
    last_delete,                \* the response to the delete request
    last_create,                \* the response to the upload of the profile
    last_apply,                 \* the response to the apply request
    in_file,                    \* the local file handed to put_file
    status_log,                 \* the statuses polled, repetitions dropped
    n_create, n_apply, n_get_job, n_output_get, n_sleep, n_delete, n_clock,
    warnings,                   \* number of _log_warning calls
    steps,                      \* the steps the operation went through, in order
    codec_hist,                 \* the values a chain of codec calls went through
    codec_trace,                \* the codec calls made, in order
    api_session,                \* self._api_session: "none" or "session"
    host_serial_number,         \* self.host_serial_number
    remote_addr,                \* self._play_context.remote_addr
    options,                    \* username, password, organization of the plugin
    api_log,                    \* the calls made on ZPECloudAPI by the last operation
    organization_name,          \* ZPECloudAPI._organization_name
    last_lookup,                \* the answers to the last lookup of the device
    n_session_ops,              \* calls of _connect, close and reset made
    cur_version, next_version,  \* the arguments of _is_upgrade
    upgrade_ret,                \* the tuple returned by _is_upgrade
    ops,                        \* two operations running side by side
    cloud,                      \* the profiles and jobs ZPE Cloud holds for them
    twin,                       \* the two _wait_job_to_finish run on the same answers
    run,                        \* one run of the software_upgrade action
    pages                       \* one paginated list call of ZPECloudAPI

vars == <<pc, op, become, executable, host_zpecloud_id,
          timeout_wait_job_finish, max_delay_wait_job_finish,
          max_file_size_put_file, cmd, profile_content, profile_id, job_id,
          request_attempt, start_time, now, wait_ret, outcome, result,
          raised, local_out, last_resp, last_output, last_delete, last_create,
          last_apply, in_file, status_log,
          n_create, n_apply, n_get_job, n_output_get, n_sleep, n_delete,
          n_clock, warnings, steps,
          codec_hist, codec_trace,
          api_session, host_serial_number, remote_addr, options, api_log,
          organization_name, last_lookup, n_session_ops,
          cur_version, next_version, upgrade_ret, ops, cloud, twin, run, pages>>

(***************************************************************************)
(* Bounds of the model.                                                    *)
(***************************************************************************)
MaxReqDur == 1      \* most seconds gone by between two readings of the clock, the sleep apart
MaxCeiling == 4     \* largest configured timeout_wait_job_finish tried
MaxDelayCfg == 2    \* largest configured max_delay_wait_job_finish tried
MaxAttempts == 6    \* polls of one _wait_job_to_finish followed
MaxBackoffAttempt == 10  \* largest attempt handed to exponential_backoff_delay
LowAttempts == 3    \* attempts below zero handed to exponential_backoff_delay
MaxLen == 2         \* pieces of a file content handed to the codec
MaxCodecSteps == 3  \* codec calls chained on one content
MaxPart == 2        \* largest number in a part of a version
MaxOps == 3         \* calls of _connect, close and reset made on one Connection
MaxPairPolls == 2   \* polls made by each of two calls running side by side

(***************************************************************************)
(* Program constants.  The two waiting times of the plugin (60 and 3       *)
(* minutes) are configuration of the poller: Init takes the largest small *)
(* pair, MaxCeiling and MaxDelayCfg, and InitPoller every pair up to it.   *)
(***************************************************************************)
MEGABYTE == 1000000
TestMaxDelay == 256     \* max_delay of test_exponential_backoff_delay

(***************************************************************************)
(* Python values.                                                          *)
(***************************************************************************)
PyNone == [t |-> "none", s |-> <<>>, enc |-> <<>>]
PyStr(s) == [t |-> "str", s |-> s, enc |-> <<>>]
PyBytes(s) == [t |-> "bytes", s |-> s, enc |-> <<>>]

\* bool(v) for None, str, bytes
Truthy(v) == v.t # "none" /\ (v.s # <<>> \/ v.enc # <<>>)

\* str(v) as interpolated by an f-string
Fmt(v) == IF v.t = "none" THEN <<"None">> ELSE v.s

\* ansible to_bytes / bytes.decode("utf-8") / str.encode()
to_bytes(v) ==
    IF v.t = "none" THEN PyBytes(<<"None">>) ELSE [v EXCEPT !.t = "bytes"]
decode_utf8(v) == [v EXCEPT !.t = "str"]
encode_utf8(v) == [v EXCEPT !.t = "bytes"]

\* sub in s (str.__contains__)
Contains(s, sub) ==
    \E i \in 0..(Len(s) - Len(sub)) : SubSeq(s, i + 1, i + Len(sub)) = sub

\* s.replace(old, new), old non-empty: every non-overlapping occurrence
RECURSIVE str_replace(_, _, _)
str_replace(s, old, new) ==
    IF Len(s) < Len(old) THEN s
    ELSE IF SubSeq(s, 1, Len(old)) = old
         THEN new \o str_replace(SubSeq(s, Len(old) + 1, Len(s)), old, new)
         ELSE <<Head(s)>> \o str_replace(Tail(s), old, new)

\* dict.get(key, default)
Get(obj, key, default) == IF key \in DOMAIN obj THEN obj[key] ELSE default

EmptyObj == <<>>

\* text of an HTTP body; json.loads raises on text that is not JSON
JsonText(obj) == [kind |-> "text", parses |-> TRUE, obj |-> obj]
BadText == [kind |-> "text", parses |-> FALSE, obj |-> EmptyObj]
EmptyText == BadText            \* ""
NoneText == [kind |-> "none", parses |-> FALSE, obj |-> EmptyObj]

json_loads(text) ==
    IF text.kind = "none" THEN [ok |-> FALSE, exc |-> "TypeError", val |-> EmptyObj]
    ELSE IF ~text.parses THEN [ok |-> FALSE, exc |-> "JSONDecodeError", val |-> EmptyObj]
    ELSE [ok |-> TRUE, exc |-> "", val |-> text.obj]

Response(code, reason, text) ==
    [status_code |-> code, reason |-> PyStr(reason), text |-> text]

NoException == [exc |-> "", msg |-> <<>>]
Exception(cls, msg) == [exc |-> cls, msg |-> msg]

(***************************************************************************)
(* plugin_utils/zpecloud_api.py: each call maps the Response r of its one  *)
(* HTTP request to the (content, err) tuple it returns.  A call that       *)
(* raises is a record with exc set.                                        *)
(***************************************************************************)
Ret(val, err) == [exc |-> "", val |-> val, err |-> err]
Raises(cls) == [exc |-> cls, val |-> EmptyObj, err |-> PyNone]

_post(r) == IF r.status_code = 200 THEN <<r.text, PyNone>> ELSE <<EmptyText, r.reason>>

_get(r) == IF r.status_code = 200 THEN <<r.text, PyNone>> ELSE <<EmptyText, r.reason>>

_delete(r) == IF r.status_code = 204 THEN <<r.text, PyNone>> ELSE <<EmptyText, r.reason>>

_upload_file(r) == IF r.status_code = 201 THEN <<r.text, PyNone>> ELSE <<EmptyText, r.reason>>

create_profile(r) ==
    LET ce == _upload_file(r) IN
    IF Truthy(ce[2]) THEN Ret(EmptyObj, ce[2])
    ELSE LET j == json_loads(ce[1]) IN
         IF j.ok THEN Ret(j.val, PyNone) ELSE Raises(j.exc)

delete_profile(r) ==
    LET err == _delete(r)[2] IN
    IF Truthy(err) THEN Ret(NoneText, err) ELSE Ret(EmptyText, PyNone)

apply_profile(r) ==
    LET ce == _post(r) IN
    IF Truthy(ce[2]) THEN Ret(NoneText, ce[2]) ELSE Ret(ce[1], PyNone)

get_job(r) ==
    LET ce == _get(r) IN
    IF Truthy(ce[2]) THEN Ret(NoneText, ce[2]) ELSE Ret(ce[1], PyNone)

\* authenticate_with_password: org is the company.business_name of the answer
authenticate_with_password(r) ==
    LET ce == _post(r) IN
    IF Truthy(ce[2]) THEN [exc |-> "", err |-> ce[2], org |-> PyNone]
    ELSE LET j == json_loads(ce[1]) IN
         IF ~j.ok THEN [exc |-> j.exc, err |-> PyNone, org |-> PyNone]
         ELSE [exc |-> "", err |-> PyNone,
               org |-> Get(Get(j.val, "company", EmptyObj), "business_name", PyNone)]

\* the id of the first company of the list with the name, None without one
RECURSIVE CompanyId(_, _)
CompanyId(companies, name) ==
    IF companies = <<>> THEN PyNone
    ELSE IF Get(Head(companies), "business_name", PyNone) = name THEN Get(Head(companies), "id", PyNone)
    ELSE CompanyId(Tail(companies), name)

\* change_organization: rc answers the list of companies, rs the switch
change_organization(cur_org, organization_name_, rc, rs) ==
    IF cur_org = organization_name_ THEN [exc |-> "", err |-> PyNone, org |-> cur_org]
    ELSE LET ce == _get(rc) IN
    IF Truthy(ce[2]) THEN [exc |-> "", err |-> ce[2], org |-> cur_org]
    ELSE LET j == json_loads(ce[1]) IN
    IF ~j.ok THEN [exc |-> j.exc, err |-> PyNone, org |-> cur_org]
    ELSE IF CompanyId(j.val, organization_name_) = PyNone
    THEN [exc |-> "", org |-> cur_org,
          err |-> PyStr(<<"Organization ">> \o organization_name_.s \o <<" was not found or not authorized">>)]
    ELSE LET se == _post(rs) IN
    IF Truthy(se[2]) THEN [exc |-> "", err |-> se[2], org |-> cur_org]
    ELSE [exc |-> "", err |-> PyNone, org |-> organization_name_]

logout(r) ==
    LET err == _post(r)[2] IN
    IF Truthy(err) THEN <<FALSE, err>> ELSE <<TRUE, PyNone>>

\* the first device of the list with the serial number, an empty object
\* without one
RECURSIVE FindDevice(_, _)
FindDevice(device_list, serial_number) ==
    IF device_list = <<>> THEN EmptyObj
    ELSE IF Get(Head(device_list), "serial_number", PyNone) = serial_number THEN Head(device_list)
    ELSE FindDevice(Tail(device_list), serial_number)

\* _search_devices, then process_response on its content
search_device(serial_number, r) ==
    LET ce == _get(r) IN
    IF Truthy(ce[2]) THEN [exc |-> "", err |-> ce[2], device |-> EmptyObj]
    ELSE LET j == json_loads(ce[1]) IN
    IF ~j.ok THEN [exc |-> j.exc, err |-> PyNone, device |-> EmptyObj]
    ELSE [exc |-> "", err |-> PyNone, device |-> FindDevice(Get(j.val, "list", <<>>), serial_number)]

Settled(s) == s.exc # "" \/ Truthy(s.err) \/ s.device # EmptyObj

\* fetch_device_by_serial_number: re answers the search among the enrolled
\* devices, ra the search among the available ones
fetch_device_by_serial_number(serial_number, re, ra) ==
    IF Settled(search_device(serial_number, re)) THEN search_device(serial_number, re)
    ELSE IF Settled(search_device(serial_number, ra)) THEN search_device(serial_number, ra)
    ELSE [exc |-> "", device |-> EmptyObj,
          err |-> PyStr(<<"Serial number ">> \o Fmt(serial_number) \o <<" not found">>)]

\* can_apply_profile_on_device: r answers the search among the enrolled devices
can_apply_profile_on_device(serial_number, r) ==
    LET ce == _get(r) IN
    IF Truthy(ce[2]) THEN [exc |-> "", ok |-> FALSE, err |-> ce[2]]
    ELSE LET j == json_loads(ce[1]) IN
    IF ~j.ok THEN [exc |-> j.exc, ok |-> FALSE, err |-> PyNone]
    ELSE LET device == FindDevice(Get(j.val, "list", <<>>), serial_number) IN
    IF device = EmptyObj
    THEN [exc |-> "", ok |-> FALSE, err |-> PyStr(<<"Device is not enrolled, or user does not have permission">>)]
    ELSE IF Get(device, "device_status", PyNone) \in {PyStr(<<"Online">>), PyStr(<<"Failover">>)}
    THEN [exc |-> "", ok |-> TRUE, err |-> PyNone]
    ELSE [exc |-> "", ok |-> FALSE, err |-> PyStr(<<"Device status is ">> \o Fmt(Get(device, "device_status", PyNone)))]

(***************************************************************************)
(* plugin_utils/utils.py                                                   *)
(***************************************************************************)
Min(a, b) == IF a <= b THEN a ELSE b

\* the delay doubled once too often
exponential_backoff_delay_doubled(attempt, max_delay) ==
    IF attempt <= 0 THEN 1 ELSE Min(2 ^ attempt, max_delay)

\* no delay at all
exponential_backoff_delay_none(attempt, max_delay) == 0

\* the delay doubled without regard for the ceiling
exponential_backoff_delay_unbounded(attempt, max_delay) ==
    IF attempt <= 0 THEN 1 ELSE 2 ^ (attempt - 1)

exponential_backoff_delay(attempt, max_delay) ==
    IF attempt <= 0 THEN 1 ELSE Min(2 ^ (attempt - 1), max_delay)

ZipLayer(filename) == [codec |-> "zip", name |-> filename]
B64Layer == [codec |-> "base64", name |-> ""]
\* base64 text that picked up characters outside the alphabet
B64StrayLayer == [codec |-> "base64", name |-> "stray"]

\* an entry name with a NUL character in it
NulName == "a\\0b"

\* zipfile.ZipInfo(filename): the name is cut at its first NUL
StoredName(filename) == IF filename = NulName THEN "a" ELSE filename

\* zipfile.ZipFile(mode="w").writestr(filename, data): an empty name raises
\* IndexError, which compress_file catches
compress_file(data, filename) ==
    IF filename = ""
    THEN <<PyNone, PyStr(<<"Failed do compress data. Error: ", "string index out of range">>)>>
    ELSE <<[t |-> "bytes", s |-> data.s, enc |-> <<ZipLayer(StoredName(filename))>> \o data.enc], PyNone>>

\* zipfile.ZipFile(mode="r").open(filename).read(): BadZipFile on bytes that
\* are no archive, KeyError on an archive without the entry
extract_file(data, filename) ==
    IF data.enc = <<>> \/ Head(data.enc).codec # "zip"
    THEN <<PyNone, PyStr(<<"Failed to extract data. Error: ", "File is not a zip file">>)>>
    ELSE IF Head(data.enc).name # filename
    THEN <<PyNone, PyStr(<<"Failed to extract data. Error: ", "There is no item named ", filename, " in the archive">>)>>
    ELSE <<[t |-> "bytes", s |-> data.s, enc |-> Tail(data.enc)], PyNone>>

\* base64.b64encode handing the data back as it came
encode_base64_unencoded(data) == <<data, PyNone>>

encode_base64(data) ==
    <<[t |-> "bytes", s |-> data.s, enc |-> <<B64Layer>> \o data.enc], PyNone>>

\* the characters of the base64 alphabet in a piece of text
AlphabetChars(piece) ==
    CASE piece \in {"\n", "!"} -> 0
      [] piece = "up 2 days" -> 7
      [] piece = "remote file" -> 10
      [] piece = "somethinginbase64" -> 17
      [] OTHER -> 1

RECURSIVE AlphabetCount(_)
AlphabetCount(s) == IF s = <<>> THEN 0 ELSE AlphabetChars(Head(s)) + AlphabetCount(Tail(s))

\* base64.b64decode(data), validate=False: the characters outside the
\* alphabet are dropped, then the rest is decoded; binascii.Error when what
\* is left is no base64 (its length is no multiple of 4)
decode_base64(data) ==
    IF data.enc # <<>> /\ Head(data.enc).codec = "base64"
    THEN <<[t |-> "bytes", s |-> data.s, enc |-> Tail(data.enc)], PyNone>>
    ELSE IF data.enc = <<>> /\ AlphabetCount(data.s) = 0 THEN <<PyBytes(<<>>), PyNone>>
    ELSE IF data.enc = <<>> /\ AlphabetCount(data.s) % 4 = 0
    THEN <<PyBytes(<<"b64decode of ">> \o data.s), PyNone>>
    ELSE <<PyNone, PyStr(<<"Failed to decode data. Error: ", "Incorrect padding">>)>>

(***************************************************************************)
(* plugin_utils/jinja_templates.py.  jinja_ok: the environment's answer to *)
(* whether jinja renders without a TemplateError.                          *)
(***************************************************************************)
NoScript == [template |-> "", context |-> EmptyObj]

_render_template(template, context, jinja_ok) ==
    IF jinja_ok THEN <<[template |-> template, context |-> context], PyNone>>
    ELSE <<NoScript, PyStr(<<"Failed to render profile content. Err: ", "TemplateError">>)>>

render_exec_command(command, jinja_ok) ==
    _render_template("EXEC_COMMAND_TEMPLATE", [command |-> command], jinja_ok)

render_put_file(out_path, file_content, filename, jinja_ok) ==
    _render_template("PUT_FILE_TEMPLATE", [content |-> file_content, out_path |-> out_path, filename |-> filename, compression_method |-> 8], jinja_ok)

render_fetch_file(in_path, filename, max_file_size, jinja_ok) ==
    _render_template("FETCH_FILE_TEMPLATE", [in_path |-> in_path, filename |-> filename, compression_method |-> 8, max_file_size |-> max_file_size], jinja_ok)

(***************************************************************************)
(* connection/zpecloud.py: the helpers of Connection, as functions of the  *)
(* responses they receive.  Return / Raise: how a call ends.               *)
(***************************************************************************)
Return(val) == [exc |-> "", msg |-> <<>>, val |-> val]
Raise(cls, msg) == [exc |-> cls, msg |-> msg, val |-> PyNone]

filename_inside_zip == "original-file"

\* _wrapper_exec_command without the test of the rendering error
_wrapper_exec_command_unchecked(c, jinja_ok) == Return(render_exec_command(c, jinja_ok)[1])

_wrapper_exec_command(c, jinja_ok) ==
    LET pe == render_exec_command(c, jinja_ok) IN
    IF Truthy(pe[2])
    THEN Raise("AnsibleError", <<"Failed to execute command. Error: ">> \o Fmt(pe[2]) \o <<".">>)
    ELSE Return(pe[1])

\* _create_profile without the test of the identifier
_create_profile_id_unchecked(content, r) ==
    LET c == create_profile(r)
        err == IF c.exc # "" THEN PyStr(<<c.exc>>) ELSE c.err
    IN  IF Truthy(err)
        THEN Raise("AnsibleError", <<"Failed to create script profile in ZPE Cloud. Error: ">> \o Fmt(err) \o <<".">>)
        ELSE Return(Get(c.val, "id", PyNone))

_create_profile(content, r) ==
    LET c == create_profile(r)
        err == IF c.exc # "" THEN PyStr(<<c.exc>>) ELSE c.err
    IN  IF Truthy(err)
        THEN Raise("AnsibleError", <<"Failed to create script profile in ZPE Cloud. Error: ">> \o Fmt(err) \o <<".">>)
        ELSE IF Get(c.val, "id", PyNone).t = "none"
        THEN Raise("AnsibleError", <<"Failed to retrieve ID from script profile.">>)
        ELSE Return(Get(c.val, "id", PyNone))

\* _delete_profile raising on a failed delete, as _create_profile and
\* _apply_profile do on their requests
_delete_profile_raising(pid, r) ==
    LET err == delete_profile(r).err IN
    IF Truthy(err)
    THEN Raise("AnsibleError", <<"Failed to delete profile from ZPE Cloud. ID: ">> \o Fmt(pid) \o <<". Error: ">> \o Fmt(err))
    ELSE Return(FALSE)

\* val: whether a warning was logged
_delete_profile(pid, r) ==
    LET err == delete_profile(r).err IN Return(Truthy(err))

_apply_profile(device_id, pid, r) ==
    LET c == apply_profile(r) IN
    IF Truthy(c.err)
    THEN Raise("AnsibleError", <<"Failed to apply script profile ">> \o Fmt(pid) \o <<" to device. Error: ">> \o Fmt(c.err) \o <<".">>)
    ELSE LET resp == json_loads(c.val) IN
         IF ~resp.ok THEN Raise(resp.exc, <<>>)
         ELSE Return(Get(resp.val, "job_id", PyNone))

\* the output handed back as it was downloaded, bytes left undecoded
OutputText_undecoded(out) == out.content

\* r.content of the output download, decoded when it is bytes
OutputText(out) == IF out.content.t = "bytes" THEN decode_utf8(out.content) ELSE out.content

Returned(content, err, branch, fetched) ==
    [kind |-> "return", exc |-> "", msg |-> <<>>, content |-> content, err |-> err, branch |-> branch, fetched |-> fetched]
Raised(cls, msg) ==
    [kind |-> "raise", exc |-> cls, msg |-> msg, content |-> PyNone, err |-> PyNone, branch |-> "Raised", fetched |-> FALSE]
Continue ==
    [kind |-> "continue", exc |-> "", msg |-> <<>>, content |-> PyNone, err |-> PyNone, branch |-> "", fetched |-> FALSE]

\* the elif branch without its Cancelled test
FailureStatuses_no_cancelled == {PyStr(<<"Failed">>), PyStr(<<"Timeout">>)}

\* the statuses of the elif branch of _wait_job_to_finish
FailureStatuses == {PyStr(<<"Failed">>), PyStr(<<"Cancelled">>), PyStr(<<"Timeout">>)}

\* a failed get_job request taken for a job still running, and retried
get_job_failed_retried(jid, err) == Continue

\* if err: raise AnsibleError(...)
get_job_failed(jid, err) ==
    Raised("AnsibleError", <<"Failed to get status for job ">> \o Fmt(jid) \o <<". Err: ">> \o Fmt(err) \o <<".">>)

\* the check of operation_status left out
status_missing_unchecked(jid, operation_status) == Continue

\* if operation_status is None: raise AnsibleError(...)
status_missing(jid, operation_status) ==
    IF operation_status.t = "none"
    THEN Raised("AnsibleError", <<"Failed to get status for job ">> \o Fmt(jid) \o <<".">>)
    ELSE Continue

\* the output reference taken as given, whatever it holds
has_output_file_unchecked(url) == TRUE

\* operation_output_file_url and len(operation_output_file_url) > 0
has_output_file(url) == Truthy(url) /\ Len(url.s) > 0

\* the branch of a failure status
job_failed(operation_status, url, out) ==
    IF has_output_file(url)
    THEN Returned(PyNone, PyStr(<<"Job finish with status ">> \o operation_status.s \o <<". Output: ">> \o OutputText(out).s \o <<".">>), "Failed", TRUE)
    ELSE Returned(PyNone, PyStr(<<"Job finish with status ">> \o operation_status.s \o <<". Not output content.">>), "Failed", FALSE)

\* the loop condition with a strict comparison
loop_condition_strict(elapsed, timeout) == elapsed < timeout

\* while (time.time() - start_time) <= self.timeout_wait_job_finish
loop_condition(elapsed, timeout) == elapsed <= timeout

\* One pass through the body of the while loop of _wait_job_to_finish, up to
\* the return, the raise or the backoff: r answers get_job, out answers the
\* download of output_file.
_wait_job_to_finish_body(jid, r, out) ==
    LET g == get_job(r) IN
    IF Truthy(g.err) THEN get_job_failed(jid, g.err)
    ELSE LET content == json_loads(g.val) IN
    IF ~content.ok THEN Raised(content.exc, <<>>)
    ELSE LET operation_status == Get(Get(content.val, "operation", EmptyObj), "status", PyNone)
             operation_output_file_url == Get(content.val, "output_file", PyNone)
         IN
    IF status_missing(jid, operation_status).kind = "raise" THEN status_missing(jid, operation_status)
    ELSE IF operation_status = PyStr(<<"Successful">>) /\ has_output_file(operation_output_file_url)
    THEN Returned(OutputText(out), PyNone, "Succeeded", TRUE)
    ELSE IF operation_status \in FailureStatuses
    THEN job_failed(operation_status, operation_output_file_url, out)
    ELSE Continue

_process_put_file(data) ==
    LET z == compress_file(data, filename_inside_zip) IN
    IF Truthy(z[2]) THEN Raise("AnsibleError", <<"Failed to compress file. Error: ">> \o Fmt(z[2]) \o <<".">>)
    ELSE LET b == encode_base64(z[1]) IN
    IF Truthy(b[2]) THEN Raise("AnsibleError", <<"Failed to encode file. Error: ">> \o Fmt(b[2]) \o <<".">>)
    ELSE Return(decode_utf8(b[1]))

\* _process_fetch_file handing back the decoded bytes when the extraction
\* fails
_process_fetch_file_unextracted(data) ==
    LET d == decode_base64(encode_utf8(data)) IN
    IF Truthy(d[2]) THEN Raise("AnsibleError", <<"Failed to decode file. Error: ">> \o Fmt(d[2]) \o <<".">>)
    ELSE LET x == extract_file(d[1], filename_inside_zip) IN
    IF Truthy(x[2]) THEN Return(d[1])
    ELSE Return(x[1])

_process_fetch_file(data) ==
    LET d == decode_base64(encode_utf8(data)) IN
    IF Truthy(d[2]) THEN Raise("AnsibleError", <<"Failed to decode file. Error: ">> \o Fmt(d[2]) \o <<".">>)
    ELSE LET x == extract_file(d[1], filename_inside_zip) IN
    IF Truthy(x[2]) THEN Raise("AnsibleError", <<"Failed to extract file. Error: ">> \o Fmt(x[2]) \o <<".">>)
    ELSE Return(x[1])

_wrapper_put_file(file_content, out_path, jinja_ok) ==
    LET pe == render_put_file(out_path, file_content, filename_inside_zip, jinja_ok) IN
    IF Truthy(pe[2])
    THEN Raise("AnsibleError", <<"Failed to render put file profile. Error: ">> \o Fmt(pe[2]) \o <<".">>)
    ELSE Return(pe[1])

_wrapper_fetch_file(in_path, max_size, jinja_ok) ==
    LET pe == render_fetch_file(in_path, filename_inside_zip, max_size, jinja_ok) IN
    IF Truthy(pe[2])
    THEN Raise("AnsibleError", <<"Failed to render fetch file profile. Error: ">> \o Fmt(pe[2]) \o <<".">>)
    ELSE Return(pe[1])

(***************************************************************************)
(* The environment: what the caller hands in and what ZPE Cloud answers.   *)
(***************************************************************************)
Commands ==
    { <<"uptime">>,
      <<"/bin/sh", " -c ", "'uptime'">>,
      <<"/bin/sh", " -c ", "'", "/bin/sh", " --version'">>,
      <<"echo ", "/bin/sh">> }

NoFile == [exists |-> FALSE, st_size |-> -1, read_ok |-> FALSE, data |-> PyNone]

LocalFiles ==
    { [exists |-> FALSE, st_size |-> 0, read_ok |-> FALSE, data |-> PyNone],
      [exists |-> TRUE, st_size |-> 100 * MEGABYTE + 1, read_ok |-> TRUE, data |-> PyBytes(<<"big">>)],
      [exists |-> TRUE, st_size |-> 100 * MEGABYTE, read_ok |-> FALSE, data |-> PyNone],
      [exists |-> TRUE, st_size |-> 100 * MEGABYTE, read_ok |-> TRUE, data |-> PyBytes(<<"somefilecontent">>)] }

UploadResponses ==
    { Response(201, <<"Created">>, JsonText([id |-> PyStr(<<"123">>)])),
      Response(201, <<"Created">>, JsonText([id |-> PyNone])),
      Response(201, <<"Created">>, JsonText(EmptyObj)),
      Response(201, <<"Created">>, BadText),
      Response(400, <<"Bad Request">>, BadText),
      Response(500, <<>>, BadText) }

ApplyResponses ==
    { Response(200, <<"OK">>, JsonText([job_id |-> PyStr(<<"456">>)])),
      Response(200, <<"OK">>, JsonText(EmptyObj)),
      Response(200, <<"OK">>, BadText),
      Response(403, <<"Forbidden">>, BadText),
      Response(500, <<>>, BadText) }

DeleteResponses ==
    { Response(204, <<"No Content">>, EmptyText),
      Response(404, <<"Not Found">>, BadText),
      Response(500, <<>>, BadText) }

Url == PyStr(<<"someurl">>)

JobBody(status, output_file) == [operation |-> [status |-> PyStr(<<status>>)], output_file |-> output_file]

JobBodies ==
    { JobBody("Sending", PyStr(<<>>)), JobBody("Scheduled", PyStr(<<>>)),
      JobBody("Started", PyStr(<<>>)),
      JobBody("Unknown", PyStr(<<>>)),
      JobBody("Successful", Url), JobBody("Successful", PyStr(<<>>)), JobBody("Successful", PyNone),
      [operation |-> [status |-> PyStr(<<"Successful">>)]],
      JobBody("Failed", Url), JobBody("Failed", PyStr(<<>>)), JobBody("Failed", PyNone),
      [operation |-> [status |-> PyStr(<<"Failed">>)]],
      JobBody("Cancelled", PyStr(<<>>)),
      JobBody("Timeout", Url), [operation |-> [status |-> PyStr(<<"Timeout">>)]],
      EmptyObj,
      [operation |-> EmptyObj, output_file |-> Url],
      [operation |-> [status |-> PyNone], output_file |-> Url] }

JobResponses ==
    { Response(200, <<"OK">>, JsonText(b)) : b \in JobBodies }
    \cup { Response(200, <<"OK">>, BadText),
           Response(404, <<"Not Found">>, BadText),
           Response(500, <<>>, BadText) }

NoResponse == Response(0, <<>>, BadText)
NoOutput == [content |-> PyNone]

\* what the download of output_file returns: requests gives bytes, the
\* unit tests' mocks give str
GoodArchive == encode_base64(compress_file(PyBytes(<<"remote file">>), filename_inside_zip)[1])[1]
NotArchive == encode_base64(PyBytes(<<"remote file">>))[1]

OutputResponses ==
    { [content |-> PyBytes(<<"up 2 days">>)],
      [content |-> PyStr(<<"somethinginbase64">>)],
      [content |-> PyBytes(<<>>)],
      [content |-> GoodArchive],
      [content |-> NotArchive] }

WriteOutcomes == {"ok", "open_fails", "write_fails"}

max_file_size_fetch_file == 100 * MEGABYTE

(***************************************************************************)
(* State after Connection.__init__                                         *)
(***************************************************************************)
(***************************************************************************)
(* The state is in groups: the operation of the Connection, the codec      *)
(* calls, the session with ZPE Cloud, _is_upgrade and the pair of          *)
(* operations.  A specification moves one group and keeps the others at    *)
(* rest.                                                                   *)
(***************************************************************************)
Codec == <<codec_hist, codec_trace>>
Session == <<api_session, host_serial_number, remote_addr, options, api_log, organization_name, last_lookup,
             n_session_ops>>
Upgrade == <<cur_version, next_version, upgrade_ret>>
Pair == <<ops, cloud>>
More == <<twin, run, pages>>
Others == <<Codec, Session, Upgrade, Pair, More>>

NoLookup == [enrolled |-> NoResponse, available |-> NoResponse]
NoOptions == [username |-> PyStr(<<"user">>), password |-> PyStr(<<"secret">>), organization |-> PyNone]

CodecIdle == codec_hist = <<>> /\ codec_trace = <<>>
UpgradeIdle == cur_version = <<>> /\ next_version = <<>> /\ upgrade_ret = <<>>
PairIdle == ops = <<>> /\ cloud = <<>>
MoreIdle == twin = <<>> /\ run = <<>> /\ pages = <<>>

\* the session as _connect leaves it: authenticated, the device looked up
SessionReady ==
    /\ api_session = "session"
    /\ host_serial_number = PyStr(<<"123456789">>)
    /\ remote_addr = PyStr(<<"123456789">>)
    /\ options = NoOptions
    /\ api_log = <<>>
    /\ organization_name = PyNone
    /\ last_lookup = NoLookup
    /\ n_session_ops = 0

OthersIdle == CodecIdle /\ SessionReady /\ UpgradeIdle /\ PairIdle /\ MoreIdle

NoRet == [content |-> PyNone, err |-> PyNone]
NoResult == [rc |-> -1, stdout |-> PyNone, stderr |-> PyNone]

Init ==
    /\ pc = "idle"
    /\ op = ""
    /\ become = FALSE
    /\ executable = <<"/bin/sh">>
    /\ host_zpecloud_id = PyStr(<<"dev-1">>)
    /\ timeout_wait_job_finish = MaxCeiling
    /\ max_delay_wait_job_finish = MaxDelayCfg
    /\ max_file_size_put_file = 100 * MEGABYTE
    /\ cmd = <<>>
    /\ profile_content = NoScript
    /\ profile_id = PyNone
    /\ job_id = PyNone
    /\ request_attempt = 0
    /\ start_time = 0
    /\ now = 0
    /\ wait_ret = NoRet
    /\ outcome = ""
    /\ result = NoResult
    /\ raised = NoException
    /\ local_out = PyNone
    /\ last_resp = NoResponse
    /\ last_output = NoOutput
    /\ last_delete = NoResponse
    /\ last_create = NoResponse
    /\ last_apply = NoResponse
    /\ in_file = NoFile
    /\ status_log = <<>>
    /\ n_create = 0 /\ n_apply = 0 /\ n_get_job = 0 /\ n_output_get = 0
    /\ n_sleep = 0 /\ n_delete = 0 /\ n_clock = 0
    /\ warnings = 0
    /\ steps = <<>>
    /\ OthersIdle

(***************************************************************************)
(* The operations.  An operation that raises stops at pc = "raised", one   *)
(* that returns at pc = "returned".                                        *)
(***************************************************************************)
Counters == <<n_create, n_apply, n_get_job, n_output_get, n_sleep, n_delete, n_clock, warnings>>
Config == <<executable, host_zpecloud_id, timeout_wait_job_finish, max_delay_wait_job_finish, max_file_size_put_file>>
Requests == <<last_create, last_apply, in_file>>
Poller == <<request_attempt, start_time, now, wait_ret, outcome, last_resp, last_output, status_log>>

\* exec_command up to the rendering of the profile.  b: whether Ansible has
\* set a become plugin on the connection.
exec_command(c, b, jinja_ok) ==
    /\ pc = "idle"
    /\ op' = "exec"
    /\ cmd' = c
    /\ become' = b
    /\ IF ~b /\ ~Contains(c, executable)
       THEN /\ pc' = "raised"
            /\ raised' = Exception("AnsibleError", <<"Executable process in command does not match expected process.">>)
            /\ UNCHANGED profile_content
       ELSE LET w == _wrapper_exec_command(IF b THEN c ELSE str_replace(c, executable, <<"su ansible">>), jinja_ok) IN
            IF w.exc # ""
            THEN /\ pc' = "raised"
                 /\ raised' = Exception(w.exc, w.msg)
                 /\ UNCHANGED profile_content
            ELSE /\ pc' = "create"
                 /\ profile_content' = w.val
                 /\ UNCHANGED raised
    /\ steps' = (IF pc' = "create" THEN Append(steps, "render") ELSE steps)
    /\ UNCHANGED <<Others, Config, Requests, Poller, Counters, last_delete, profile_id, job_id, result, local_out>>

\* the size test with the limit itself rejected
size_over_limit_inclusive(st_size, limit) == st_size >= limit

\* if file_stat.st_size > self.max_file_size_put_file
size_over_limit(st_size, limit) == st_size > limit

\* put_file up to the rendering of the profile
put_file(f, jinja_ok) ==
    /\ pc = "idle"
    /\ op' = "put"
    /\ in_file' = f
    /\ IF ~f.exists
       THEN /\ pc' = "raised"
            /\ raised' = Exception("AnsibleFileNotFound", <<"File or module does not exist.">>)
            /\ UNCHANGED profile_content
       ELSE IF size_over_limit(f.st_size, max_file_size_put_file)
       THEN /\ pc' = "raised"
            /\ raised' = Exception("AnsibleError", <<"Size of file is bigger than limit.">>)
            /\ UNCHANGED profile_content
       ELSE IF ~f.read_ok
       THEN /\ pc' = "raised"
            /\ raised' = Exception("AnsibleError", <<"Failed to read file.">>)
            /\ UNCHANGED profile_content
       ELSE LET file_content == _process_put_file(f.data)
                w == _wrapper_put_file(file_content.val, "out_path", jinja_ok)
            IN  IF file_content.exc # ""
                THEN /\ pc' = "raised"
                     /\ raised' = Exception(file_content.exc, file_content.msg)
                     /\ UNCHANGED profile_content
                ELSE IF w.exc # ""
                THEN /\ pc' = "raised"
                     /\ raised' = Exception(w.exc, w.msg)
                     /\ UNCHANGED profile_content
                ELSE /\ pc' = "create"
                     /\ profile_content' = w.val
                     /\ UNCHANGED raised
    /\ steps' = (IF pc' = "create" THEN Append(steps, "render") ELSE steps)
    /\ UNCHANGED <<Others, Config, last_create, last_apply, Poller, Counters, last_delete, become, cmd, profile_id, job_id, result, local_out>>

\* fetch_file up to the rendering of the profile
fetch_file(jinja_ok) ==
    /\ pc = "idle"
    /\ op' = "fetch"
    /\ LET w == _wrapper_fetch_file("in_path", max_file_size_fetch_file, jinja_ok) IN
       IF w.exc # ""
       THEN /\ pc' = "raised"
            /\ raised' = Exception(w.exc, w.msg)
            /\ UNCHANGED profile_content
       ELSE /\ pc' = "create"
            /\ profile_content' = w.val
            /\ UNCHANGED raised
    /\ steps' = (IF pc' = "create" THEN Append(steps, "render") ELSE steps)
    /\ UNCHANGED <<Others, Config, Requests, Poller, Counters, last_delete, become, cmd, profile_id, job_id, result, local_out>>

\* profile_id = self._create_profile(profile_content)
CreateProfile(r) ==
    /\ pc = "create"
    /\ n_create' = n_create + 1
    /\ last_create' = r
    /\ LET p == _create_profile(profile_content, r) IN
       IF p.exc # ""
       THEN /\ pc' = "raised"
            /\ raised' = Exception(p.exc, p.msg)
            /\ UNCHANGED profile_id
       ELSE /\ pc' = "apply"
            /\ profile_id' = p.val
            /\ UNCHANGED raised
    /\ steps' = Append(steps, "create")
    /\ UNCHANGED <<Others, Config, last_apply, in_file, Poller, op, become, cmd, profile_content, job_id, result, local_out,
                   n_apply, n_get_job, n_output_get, n_sleep, n_delete, last_delete, n_clock, warnings>>

\* the apply request sent a second time when the first one fails
ApplyProfile_retried(r) ==
    /\ pc = "apply"
    /\ n_apply' = n_apply + 1
    /\ last_apply' = r
    /\ LET j == _apply_profile(host_zpecloud_id, profile_id, r) IN
       IF j.exc # "" /\ n_apply = 0
       THEN /\ pc' = "apply"
            /\ UNCHANGED <<job_id, raised>>
       ELSE IF j.exc # ""
       THEN /\ pc' = "raised"
            /\ raised' = Exception(j.exc, j.msg)
            /\ UNCHANGED job_id
       ELSE /\ pc' = "wait"
            /\ job_id' = j.val
            /\ UNCHANGED raised
    /\ steps' = Append(steps, "apply")
    /\ UNCHANGED <<Others, Config, last_create, in_file, Poller, op, become, cmd, profile_content, profile_id, result, local_out,
                   n_create, n_get_job, n_output_get, n_sleep, n_delete, last_delete, n_clock, warnings>>

\* job_id = self._apply_profile(self.host_zpecloud_id, profile_id)
ApplyProfile(r) ==
    /\ pc = "apply"
    /\ n_apply' = n_apply + 1
    /\ last_apply' = r
    /\ LET j == _apply_profile(host_zpecloud_id, profile_id, r) IN
       IF j.exc # ""
       THEN /\ pc' = "raised"
            /\ raised' = Exception(j.exc, j.msg)
            /\ UNCHANGED job_id
       ELSE /\ pc' = "wait"
            /\ job_id' = j.val
            /\ UNCHANGED raised
    /\ steps' = Append(steps, "apply")
    /\ UNCHANGED <<Others, Config, last_create, in_file, Poller, op, become, cmd, profile_content, profile_id, result, local_out,
                   n_create, n_get_job, n_output_get, n_sleep, n_delete, last_delete, n_clock, warnings>>

\* _wait_job_to_finish, lines before the loop
WaitEnter ==
    /\ pc = "wait"
    /\ request_attempt' = 0
    /\ start_time' = now
    /\ n_clock' = n_clock + 1
    /\ pc' = "check"
    /\ steps' = Append(steps, "wait")
    /\ UNCHANGED <<Others, Config, Requests, op, become, cmd, profile_content, profile_id, job_id, result, raised, local_out,
                   now, wait_ret, outcome, last_resp, last_output, status_log,
                   n_create, n_apply, n_get_job, n_output_get, n_sleep, n_delete, last_delete, warnings>>

\* the condition of the while loop, and the return after the loop; e: the
\* seconds gone by since the clock was last read, the sleep apart
WaitCheck(e) ==
    /\ pc = "check"
    /\ n_clock' = n_clock + 1
    /\ now' = now + e
    /\ IF loop_condition(now' - start_time, timeout_wait_job_finish)
       THEN /\ pc' = "poll"
            /\ UNCHANGED <<wait_ret, outcome>>
       ELSE /\ pc' = "after_wait"
            /\ wait_ret' = [content |-> PyNone, err |-> PyStr(<<"Timeout">>)]
            /\ outcome' = "PollTimeout"
    /\ UNCHANGED <<Others, steps, Config, Requests, op, become, cmd, profile_content, profile_id, job_id, result, raised, local_out,
                   request_attempt, start_time, last_resp, last_output, status_log,
                   n_create, n_apply, n_get_job, n_output_get, n_sleep, n_delete, last_delete, warnings>>

\* operation.status of a job response, for the log
LoggedStatus(r) ==
    LET g == get_job(r) IN
    IF Truthy(g.err) \/ ~json_loads(g.val).ok THEN "-"
    ELSE LET st == Get(Get(json_loads(g.val).val, "operation", EmptyObj), "status", PyNone) IN
         IF st.t = "none" THEN "None" ELSE Head(st.s)

\* The remote job only moves forward: Sending, Scheduled, Started, then a
\* status the API does not document, then Successful (its output may not
\* be there yet) or a failure.  A response without a status can come at
\* any time.
Stage(r) ==
    LET st == LoggedStatus(r) IN
    IF st = "Sending" THEN 1 ELSE IF st = "Scheduled" THEN 2
    ELSE IF st = "Started" THEN 3 ELSE IF st = "Unknown" THEN 4
    ELSE IF st \in {"-", "None"} THEN 0 ELSE 5

Forward(prev, r) == Stage(r) = 0 \/ Stage(prev) <= Stage(r)

\* the download of output_file is requested only by a response that ends
\* the job with an output
OutputsFor(r) ==
    IF _wait_job_to_finish_body(PyNone, r, NoOutput).fetched
    THEN OutputResponses ELSE {NoOutput}

\* the body of the while loop: one get_job request, then the return, the
\* raise or the sleep
WaitPoll(r, out) ==
    /\ pc = "poll"
    /\ request_attempt < MaxAttempts
    /\ n_get_job' = n_get_job + 1
    /\ last_resp' = r
    /\ last_output' = out
    /\ Forward(last_resp, r)
    /\ status_log' = IF status_log # <<>> /\ status_log[Len(status_log)] = LoggedStatus(r)
                     THEN status_log ELSE Append(status_log, LoggedStatus(r))
    /\ LET b == _wait_job_to_finish_body(job_id, r, out) IN
       IF b.kind = "raise"
       THEN /\ pc' = "raised"
            /\ raised' = Exception(b.exc, b.msg)
            /\ outcome' = "Raised"
            /\ UNCHANGED <<wait_ret, request_attempt, n_output_get, n_sleep, now>>
       ELSE IF b.kind = "return"
       THEN /\ pc' = "after_wait"
            /\ wait_ret' = [content |-> b.content, err |-> b.err]
            /\ outcome' = b.branch
            /\ n_output_get' = n_output_get + (IF b.fetched THEN 1 ELSE 0)
            /\ UNCHANGED <<raised, request_attempt, n_sleep, now>>
       ELSE /\ pc' = "check"
            /\ request_attempt' = request_attempt + 1
            /\ n_sleep' = n_sleep + 1
            /\ now' = now + exponential_backoff_delay(request_attempt, max_delay_wait_job_finish)
            /\ UNCHANGED <<raised, wait_ret, outcome, n_output_get>>
    /\ UNCHANGED <<Others, steps, Config, Requests, op, become, cmd, profile_content, profile_id, job_id, result, local_out,
                   start_time, n_create, n_apply, n_delete, last_delete, n_clock, warnings>>

\* the failure of the job reported with return code 0
exec_failure_rc0(err) == [rc |-> 0, stdout |-> PyBytes(<<>>), stderr |-> to_bytes(err)]

\* return (1, b"", to_bytes(err))
exec_failure(err) == [rc |-> 1, stdout |-> PyBytes(<<>>), stderr |-> to_bytes(err)]

\* the output of the job returned on stderr
exec_success_on_stderr(job_output) == [rc |-> 0, stdout |-> PyBytes(<<>>), stderr |-> to_bytes(job_output)]

\* return (0, to_bytes(job_output), b"")
exec_success(job_output) == [rc |-> 0, stdout |-> to_bytes(job_output), stderr |-> PyBytes(<<>>)]

\* exec_command from the return of _wait_job_to_finish on
exec_command_return(dr) ==
    /\ pc = "after_wait"
    /\ op = "exec"
    /\ IF Truthy(wait_ret.err)
       THEN /\ pc' = "returned"
            /\ result' = exec_failure(wait_ret.err)
            /\ UNCHANGED <<raised, n_delete, last_delete, warnings>>
       ELSE LET del == _delete_profile(profile_id, dr) IN
            /\ n_delete' = n_delete + 1
            /\ last_delete' = dr
            /\ IF del.exc # ""
               THEN /\ pc' = "raised"
                    /\ raised' = Exception(del.exc, del.msg)
                    /\ UNCHANGED <<result, warnings>>
               ELSE /\ pc' = "returned"
                    /\ warnings' = warnings + (IF del.val THEN 1 ELSE 0)
                    /\ result' = exec_success(wait_ret.content)
                    /\ UNCHANGED raised
    /\ steps' = (IF n_delete' > n_delete THEN Append(steps, "delete") ELSE steps)
    /\ UNCHANGED <<Others, Config, Requests, Poller, op, become, cmd, profile_content, profile_id, job_id, local_out,
                   n_create, n_apply, n_get_job, n_output_get, n_sleep, n_clock>>

\* the error of the poller left unlooked at
transfer_failed_ignored(err) == Return(PyNone)

\* if err: raise AnsibleError(f"File transfer failed. Error: {err}.")
transfer_failed(err) ==
    IF Truthy(err)
    THEN Raise("AnsibleError", <<"File transfer failed. Error: ">> \o Fmt(err) \o <<".">>)
    ELSE Return(PyNone)

\* put_file from the return of _wait_job_to_finish on
put_file_return(dr) ==
    /\ pc = "after_wait"
    /\ op = "put"
    /\ IF transfer_failed(wait_ret.err).exc # ""
       THEN /\ pc' = "raised"
            /\ raised' = Exception(transfer_failed(wait_ret.err).exc, transfer_failed(wait_ret.err).msg)
            /\ UNCHANGED <<n_delete, last_delete, warnings>>
       ELSE LET del == _delete_profile(profile_id, dr) IN
            /\ n_delete' = n_delete + 1
            /\ last_delete' = dr
            /\ IF del.exc # ""
               THEN /\ pc' = "raised"
                    /\ raised' = Exception(del.exc, del.msg)
                    /\ UNCHANGED warnings
               ELSE /\ pc' = "returned"
                    /\ warnings' = warnings + (IF del.val THEN 1 ELSE 0)
                    /\ UNCHANGED raised
    /\ steps' = (IF n_delete' > n_delete THEN Append(steps, "delete") ELSE steps)
    /\ UNCHANGED <<Others, Config, Requests, Poller, op, become, cmd, profile_content, profile_id, job_id, local_out, result,
                   n_create, n_apply, n_get_job, n_output_get, n_sleep, n_clock>>

\* utils.write_file: open(out_path, "wb") truncates the file before the write
write_file(old, data, w) ==
    IF w = "ok" THEN <<data, PyNone>>
    ELSE IF w = "open_fails" THEN <<old, PyStr(<<"Failed to write file. Error: ", "open">>)>>
    ELSE <<PyBytes(<<>>), PyStr(<<"Failed to write file. Error: ", "write">>)>>

\* fetch_file from the return of _wait_job_to_finish on
fetch_file_return(dr, w) ==
    /\ pc = "after_wait"
    /\ op = "fetch"
    /\ IF transfer_failed(wait_ret.err).exc # ""
       THEN /\ pc' = "raised"
            /\ raised' = Exception(transfer_failed(wait_ret.err).exc, transfer_failed(wait_ret.err).msg)
            /\ UNCHANGED <<n_delete, last_delete, warnings, local_out>>
       ELSE LET del == _delete_profile(profile_id, dr)
                file_content == _process_fetch_file(wait_ret.content)
                wr == write_file(local_out, file_content.val, w)
            IN
            /\ n_delete' = n_delete + 1
            /\ last_delete' = dr
            /\ IF del.exc # ""
               THEN /\ pc' = "raised"
                    /\ raised' = Exception(del.exc, del.msg)
                    /\ UNCHANGED <<warnings, local_out>>
               ELSE /\ warnings' = warnings + (IF del.val THEN 1 ELSE 0)
                    /\ IF file_content.exc # ""
                       THEN /\ pc' = "raised"
                            /\ raised' = Exception(file_content.exc, file_content.msg)
                            /\ UNCHANGED local_out
                       ELSE /\ local_out' = wr[1]
                            /\ IF Truthy(wr[2])
                               THEN /\ pc' = "raised"
                                    /\ raised' = Exception("AnsibleError", <<"Failed to save file. Error: ">> \o Fmt(wr[2]) \o <<".">>)
                               ELSE /\ pc' = "returned"
                                    /\ UNCHANGED raised
    /\ steps' = (IF n_delete' = n_delete THEN steps
                 ELSE IF _process_fetch_file(wait_ret.content).exc # "" THEN steps \o <<"delete", "decode">>
                 ELSE steps \o <<"delete", "decode", "write">>)
    /\ UNCHANGED <<Others, Config, Requests, Poller, op, become, cmd, profile_content, profile_id, job_id, result,
                   n_create, n_apply, n_get_job, n_output_get, n_sleep, n_clock>>

Next ==
    \/ \E c \in Commands, b \in BOOLEAN, jinja_ok \in BOOLEAN : exec_command(c, b, jinja_ok)
    \/ \E f \in LocalFiles, jinja_ok \in BOOLEAN : put_file(f, jinja_ok)
    \/ \E jinja_ok \in BOOLEAN : fetch_file(jinja_ok)
    \/ \E r \in UploadResponses : CreateProfile(r)
    \/ \E r \in ApplyResponses : ApplyProfile(r)
    \/ WaitEnter
    \/ \E e \in 0..MaxReqDur : WaitCheck(e)
    \/ \E r \in JobResponses : \E out \in OutputsFor(r) : WaitPoll(r, out)
    \/ \E dr \in DeleteResponses : exec_command_return(dr)
    \/ \E dr \in DeleteResponses : put_file_return(dr)
    \/ \E dr \in DeleteResponses, w \in WriteOutcomes : fetch_file_return(dr, w)

Spec == Init /\ [][Next]_vars

(***************************************************************************)
(* The poller alone, under every small configuration: the state in which   *)
(* exec_command calls _wait_job_to_finish, and from there the steps of     *)
(* _wait_job_to_finish only.                                               *)
(***************************************************************************)
InitPoller ==
    /\ pc = "wait"
    /\ op = "exec"
    /\ become = FALSE
    /\ executable = <<"/bin/sh">>
    /\ host_zpecloud_id = PyStr(<<"dev-1">>)
    /\ timeout_wait_job_finish \in 0..MaxCeiling
    /\ max_delay_wait_job_finish \in 0..MaxDelayCfg
    /\ max_file_size_put_file = 100 * MEGABYTE
    /\ cmd = <<"/bin/sh", " -c ", "'uptime'">>
    /\ profile_content = _wrapper_exec_command(<<"su ansible", " -c ", "'uptime'">>, TRUE).val
    /\ profile_id = PyStr(<<"123">>)
    /\ job_id = PyStr(<<"456">>)
    /\ request_attempt = 0
    /\ start_time = 0
    /\ now \in 0..1
    /\ wait_ret = NoRet
    /\ outcome = ""
    /\ result = NoResult
    /\ raised = NoException
    /\ local_out = PyNone
    /\ last_resp = NoResponse
    /\ last_output = NoOutput
    /\ last_delete = NoResponse
    /\ last_create = NoResponse
    /\ last_apply = NoResponse
    /\ in_file = NoFile
    /\ status_log = <<>>
    /\ n_create = 1 /\ n_apply = 1 /\ n_get_job = 0 /\ n_output_get = 0
    /\ n_sleep = 0 /\ n_delete = 0 /\ n_clock = 0
    /\ warnings = 0
    /\ steps = <<"render", "create", "apply">>
    /\ OthersIdle

NextPoller ==
    \/ WaitEnter
    \/ \E e \in 0..MaxReqDur : WaitCheck(e)
    \/ \E r \in JobResponses : \E out \in OutputsFor(r) : WaitPoll(r, out)

SpecPoller == InitPoller /\ [][NextPoller]_vars

(***************************************************************************)
(* The poller followed for as long as it runs.  No time goes by but the    *)
(* time slept.  request_attempt and the counters stand still once they     *)
(* reach MaxAttempts: from there on exponential_backoff_delay returns      *)
(* max_delay for every max_delay tried (2^(MaxAttempts-1) is above each),  *)
(* so the delays slept are those of the unbounded counter.  The loop runs  *)
(* on its own: each step that can be taken is taken in the end.            *)
(***************************************************************************)
UpTo(n, cap) == IF n < cap THEN n + 1 ELSE cap

\* the condition of the while loop, and the return after the loop
WaitCheckOn ==
    /\ pc = "check"
    /\ n_clock' = UpTo(n_clock, MaxAttempts + 2)
    /\ IF loop_condition(now - start_time, timeout_wait_job_finish)
       THEN /\ pc' = "poll"
            /\ UNCHANGED <<wait_ret, outcome>>
       ELSE /\ pc' = "after_wait"
            /\ wait_ret' = [content |-> PyNone, err |-> PyStr(<<"Timeout">>)]
            /\ outcome' = "PollTimeout"
    /\ UNCHANGED <<Others, steps, Config, Requests, op, become, cmd, profile_content, profile_id, job_id, result, raised,
                   local_out, now, request_attempt, start_time, last_resp, last_output, status_log,
                   n_create, n_apply, n_get_job, n_output_get, n_sleep, n_delete, last_delete, warnings>>

\* the body of the while loop
WaitPollOn(r, out) ==
    /\ pc = "poll"
    /\ n_get_job' = UpTo(n_get_job, MaxAttempts + 1)
    /\ last_resp' = r
    /\ last_output' = out
    /\ Forward(last_resp, r)
    /\ status_log' = IF status_log # <<>> /\ status_log[Len(status_log)] = LoggedStatus(r)
                     THEN status_log ELSE Append(status_log, LoggedStatus(r))
    /\ LET b == _wait_job_to_finish_body(job_id, r, out) IN
       IF b.kind = "raise"
       THEN /\ pc' = "raised"
            /\ raised' = Exception(b.exc, b.msg)
            /\ outcome' = "Raised"
            /\ UNCHANGED <<wait_ret, request_attempt, n_output_get, n_sleep, now>>
       ELSE IF b.kind = "return"
       THEN /\ pc' = "after_wait"
            /\ wait_ret' = [content |-> b.content, err |-> b.err]
            /\ outcome' = b.branch
            /\ n_output_get' = n_output_get + (IF b.fetched THEN 1 ELSE 0)
            /\ UNCHANGED <<raised, request_attempt, n_sleep, now>>
       ELSE /\ pc' = "check"
            /\ request_attempt' = UpTo(request_attempt, MaxAttempts)
            /\ n_sleep' = UpTo(n_sleep, MaxAttempts)
            /\ now' = now + exponential_backoff_delay(request_attempt, max_delay_wait_job_finish)
            /\ UNCHANGED <<raised, wait_ret, outcome, n_output_get>>
    /\ UNCHANGED <<Others, steps, Config, Requests, op, become, cmd, profile_content, profile_id, job_id, result, local_out,
                   start_time, n_create, n_apply, n_delete, last_delete, n_clock, warnings>>

NextPollerOn ==
    \/ WaitEnter
    \/ WaitCheckOn
    \/ \E r \in JobResponses : \E out \in OutputsFor(r) : WaitPollOn(r, out)

SpecPollerOn == InitPoller /\ [][NextPollerOn]_vars /\ WF_vars(NextPollerOn)

(***************************************************************************)
(* exponential_backoff_delay alone: the sleep that ends an iteration of    *)
(* the loop, for every attempt number and ceiling of a small range and the *)
(* ceiling of the unit test.                                               *)
(***************************************************************************)
InitBackoff ==
    /\ pc = "backoff"
    /\ op = "exec"
    /\ become = FALSE
    /\ executable = <<"/bin/sh">>
    /\ host_zpecloud_id = PyStr(<<"dev-1">>)
    /\ timeout_wait_job_finish = MaxCeiling
    /\ max_delay_wait_job_finish \in (0..MaxDelayCfg) \cup {TestMaxDelay}
    /\ max_file_size_put_file = 100 * MEGABYTE
    /\ cmd = <<"/bin/sh", " -c ", "'uptime'">>
    /\ profile_content = _wrapper_exec_command(<<"su ansible", " -c ", "'uptime'">>, TRUE).val
    /\ profile_id = PyStr(<<"123">>)
    /\ job_id = PyStr(<<"456">>)
    /\ request_attempt \in (0 - LowAttempts)..MaxBackoffAttempt
    /\ start_time = 0
    /\ now = 0
    /\ wait_ret = NoRet
    /\ outcome = ""
    /\ result = NoResult
    /\ raised = NoException
    /\ local_out = PyNone
    /\ last_resp = NoResponse
    /\ last_output = NoOutput
    /\ last_delete = NoResponse
    /\ last_create = NoResponse
    /\ last_apply = NoResponse
    /\ in_file = NoFile
    /\ status_log = <<>>
    /\ n_create = 1 /\ n_apply = 1 /\ n_get_job = 0 /\ n_output_get = 0
    /\ n_sleep = 0 /\ n_delete = 0 /\ n_clock = 0
    /\ warnings = 0
    /\ steps = <<"render", "create", "apply">>
    /\ OthersIdle

\* delay = exponential_backoff_delay(...); request_attempt += 1;
\* time.sleep(delay) -- request_attempt is kept, for the delay to be read
\* against it
BackoffSleep ==
    /\ pc = "backoff"
    /\ pc' = "slept"
    /\ now' = now + exponential_backoff_delay(request_attempt, max_delay_wait_job_finish)
    /\ n_sleep' = n_sleep + 1
    /\ UNCHANGED <<Others, steps, Config, Requests, op, become, cmd, profile_content, profile_id, job_id, result, raised,
                   local_out, request_attempt, start_time, wait_ret, outcome, last_resp, last_output,
                   status_log, n_create, n_apply, n_get_job, n_output_get, n_delete, last_delete,
                   n_clock, warnings>>

NextBackoff == BackoffSleep

SpecBackoff == InitBackoff /\ [][NextBackoff]_vars

(***************************************************************************)
(* The codec alone: a file content, or a text that came back from the      *)
(* device, goes through a chain of calls of utils.py and of                *)
(* _process_put_file / _process_fetch_file.  A chain ends at the first     *)
(* error.                                                                  *)
(***************************************************************************)
\* everything of the operation but pc, raised and host_zpecloud_id
Operation == <<op, become, executable, timeout_wait_job_finish, max_delay_wait_job_finish,
               max_file_size_put_file, cmd, profile_content, profile_id, job_id, result, local_out,
               Requests, Poller, Counters, last_delete, steps>>

\* a Connection that runs no operation
OperationIdle ==
    /\ op = ""
    /\ become = FALSE
    /\ executable = <<"/bin/sh">>
    /\ timeout_wait_job_finish = MaxCeiling
    /\ max_delay_wait_job_finish = MaxDelayCfg
    /\ max_file_size_put_file = 100 * MEGABYTE
    /\ cmd = <<>>
    /\ profile_content = NoScript
    /\ profile_id = PyNone
    /\ job_id = PyNone
    /\ request_attempt = 0
    /\ start_time = 0
    /\ now = 0
    /\ wait_ret = NoRet
    /\ outcome = ""
    /\ result = NoResult
    /\ local_out = PyNone
    /\ last_resp = NoResponse
    /\ last_output = NoOutput
    /\ last_delete = NoResponse
    /\ last_create = NoResponse
    /\ last_apply = NoResponse
    /\ in_file = NoFile
    /\ status_log = <<>>
    /\ n_create = 0 /\ n_apply = 0 /\ n_get_job = 0 /\ n_output_get = 0
    /\ n_sleep = 0 /\ n_delete = 0 /\ n_clock = 0
    /\ warnings = 0
    /\ steps = <<>>

ContentPieces == {"a", "b", "\n"}
Contents == { PyBytes(s) : s \in UNION { [1..n -> ContentPieces] : n \in 0..MaxLen } }
Names == {filename_inside_zip, "other-file", "", NulName}

\* the base64 text of b with characters outside the alphabet added to it
StrayText(b) == [t |-> "bytes", s |-> b.s, enc |-> <<B64StrayLayer>> \o b.enc]

CodecInputs ==
    Contents \cup { decode_utf8(b) : b \in Contents }
    \cup { StrayText(b) : b \in Contents }
    \cup { decode_utf8(StrayText(b)) : b \in Contents }

\* what a call gave: the (value, error) tuple of utils.py, or the value
\* returned or the AnsibleError raised by _process_put_file / _process_fetch_file
OfTuple(tp) == [val |-> tp[1], err |-> tp[2], raised |-> FALSE]
OfOutcome(r) ==
    IF r.exc = "" THEN [val |-> r.val, err |-> PyNone, raised |-> FALSE]
    ELSE [val |-> PyNone, err |-> PyStr(r.msg), raised |-> TRUE]

InitCodec ==
    /\ pc = "codec"
    /\ raised = NoException
    /\ host_zpecloud_id = PyStr(<<"dev-1">>)
    /\ OperationIdle
    /\ \E v \in CodecInputs : codec_hist = <<OfTuple(<<v, PyNone>>)>>
    /\ codec_trace = <<>>
    /\ SessionReady /\ UpgradeIdle /\ PairIdle /\ MoreIdle

Cur == codec_hist[Len(codec_hist)]

CanCall(type) ==
    /\ pc = "codec"
    /\ Len(codec_trace) < MaxCodecSteps
    /\ Cur.err = PyNone
    /\ Cur.val.t = type

CodecCall(name, arg, entry) ==
    /\ codec_hist' = Append(codec_hist, entry)
    /\ codec_trace' = Append(codec_trace, <<name, arg>>)
    /\ UNCHANGED <<pc, raised, host_zpecloud_id, Operation, Session, Upgrade, Pair, More>>

CompressFile(n) ==
    /\ CanCall("bytes")
    /\ CodecCall("compress_file", n, OfTuple(compress_file(Cur.val, n)))

ExtractFile(n) ==
    /\ CanCall("bytes")
    /\ CodecCall("extract_file", n, OfTuple(extract_file(Cur.val, n)))

EncodeBase64 ==
    /\ CanCall("bytes")
    /\ CodecCall("encode_base64", "", OfTuple(encode_base64(Cur.val)))

DecodeBase64 ==
    /\ CanCall("bytes")
    /\ CodecCall("decode_base64", "", OfTuple(decode_base64(Cur.val)))

ProcessPutFile ==
    /\ CanCall("bytes")
    /\ CodecCall("_process_put_file", "", OfOutcome(_process_put_file(Cur.val)))

ProcessFetchFile ==
    /\ CanCall("str")
    /\ CodecCall("_process_fetch_file", "", OfOutcome(_process_fetch_file(Cur.val)))

NextCodec ==
    \/ \E n \in Names : CompressFile(n)
    \/ \E n \in Names : ExtractFile(n)
    \/ EncodeBase64
    \/ DecodeBase64
    \/ ProcessPutFile
    \/ ProcessFetchFile

SpecCodec == InitCodec /\ [][NextCodec]_vars

(***************************************************************************)
(* plugins/action/software_upgrade.py: _is_upgrade alone.  A version is    *)
(* the list of the numbers between its dots; the empty string is one part  *)
(* that is no number.                                                      *)
(***************************************************************************)
NotANumber == 0 - 1
EmptyVersion == <<NotANumber>>

\* the versions of test_software_upgrade_is_upgrade
TestVersions == { <<5, 0, 0>>, <<6, 0, 0>>, <<5, 10, 10>>, <<6, 0, 3>>, <<5, 1, 1>>, <<5, 0, 1>>, <<5, 0, 0, 0>> }

Versions ==
    UNION { [1..n -> 0..MaxPart] : n \in 2..4 } \cup {EmptyVersion} \cup TestVersions

\* for i in range(3): if int(next_version_parts[i]) < int(cur_version_parts[i]): return False, None
_is_upgrade(cur_version_parts, next_version_parts) ==
    IF Len(cur_version_parts) # 3
    THEN <<"None", PyStr(<<"Current NG OS version does not respect expected format. Version: {cur_version}.">>)>>
    ELSE IF Len(next_version_parts) # 3
    THEN <<"None", PyStr(<<"Desired NG OS version does not respect expected format. Version: {next_version}.">>)>>
    ELSE IF \E i \in 1..3 : next_version_parts[i] < cur_version_parts[i]
    THEN <<"False", PyNone>>
    ELSE <<"True", PyNone>>

InitUpgrade ==
    /\ pc = "upgrade"
    /\ raised = NoException
    /\ host_zpecloud_id = PyStr(<<"dev-1">>)
    /\ OperationIdle
    /\ cur_version \in Versions
    /\ next_version \in Versions
    /\ upgrade_ret = <<>>
    /\ CodecIdle /\ SessionReady /\ PairIdle /\ MoreIdle

IsUpgrade ==
    /\ pc = "upgrade"
    /\ pc' = "upgraded"
    /\ upgrade_ret' = _is_upgrade(cur_version, next_version)
    /\ UNCHANGED <<cur_version, next_version, raised, host_zpecloud_id, Operation, Codec, Session, Pair, More>>

NextUpgrade == IsUpgrade

SpecUpgrade == InitUpgrade /\ [][NextUpgrade]_vars

(***************************************************************************)
(* The session of one Connection: _connect, close and reset, called one    *)
(* after the other.  _connect is followed through _create_api_session and  *)
(* through the lookup of the device.                                       *)
(***************************************************************************)
ACF == "AnsibleConnectionFailure"

\* _create_api_session: ra answers the authentication, rc and rs the
\* requests of change_organization.  self._api_session is set before the
\* authentication.
_create_api_session(opts, ra, rc, rs) ==
    IF opts.username = PyNone
    THEN [exc |-> ACF, session |-> "none", org |-> PyNone, log |-> <<>>,
          msg |-> <<"Could not retrieve ZPE Cloud username from plugin configuration or environment.">>]
    ELSE IF opts.password = PyNone
    THEN [exc |-> ACF, session |-> "none", org |-> PyNone, log |-> <<>>,
          msg |-> <<"Could not retrieve ZPE Cloud password from plugin configuration or environment.">>]
    ELSE LET a == authenticate_with_password(ra)
             auth == <<"authenticate_with_password">>
         IN
    IF a.exc # "" THEN [exc |-> a.exc, session |-> "session", org |-> PyNone, log |-> auth, msg |-> <<>>]
    ELSE IF Truthy(a.err)
    THEN [exc |-> ACF, session |-> "session", org |-> PyNone, log |-> auth,
          msg |-> <<"Failed to authenticate on ZPE Cloud. Error: ">> \o Fmt(a.err) \o <<".">>]
    ELSE IF ~Truthy(opts.organization)
    THEN [exc |-> "", session |-> "session", org |-> a.org, log |-> auth, msg |-> <<>>]
    ELSE LET c == change_organization(a.org, opts.organization, rc, rs)
             both == <<"authenticate_with_password", "change_organization">>
         IN
    IF c.exc # "" THEN [exc |-> c.exc, session |-> "session", org |-> c.org, log |-> both, msg |-> <<>>]
    ELSE IF Truthy(c.err)
    THEN [exc |-> ACF, session |-> "session", org |-> c.org, log |-> both,
          msg |-> <<"Failed to switch organization. Error: ">> \o Fmt(c.err) \o <<".">>]
    ELSE [exc |-> "", session |-> "session", org |-> c.org, log |-> both, msg |-> <<>>]

\* the lookup of _connect keeping a device without id
connect_lookup_id_unchecked(hsn, hid, remote, re, ra) ==
    IF hsn # PyNone /\ hid # PyNone
    THEN [exc |-> "", msg |-> <<>>, sn |-> hsn, id |-> hid, looked |-> FALSE]
    ELSE IF remote = PyNone
    THEN [exc |-> ACF, msg |-> <<"Remote serial number from host was not found.">>,
          sn |-> hsn, id |-> hid, looked |-> FALSE]
    ELSE LET d == fetch_device_by_serial_number(remote, re, ra) IN
    IF d.exc # "" THEN [exc |-> d.exc, msg |-> <<>>, sn |-> remote, id |-> hid, looked |-> TRUE]
    ELSE IF Truthy(d.err)
    THEN [exc |-> ACF, msg |-> <<"Failed to fetch host ID. Error: ">> \o Fmt(d.err) \o <<".">>,
          sn |-> remote, id |-> hid, looked |-> TRUE]
    ELSE [exc |-> "", msg |-> <<>>, sn |-> remote, id |-> Get(d.device, "id", PyNone), looked |-> TRUE]

\* _connect from "if self.host_serial_number is None or self.host_zpecloud_id
\* is None" on: sn and id are the two fields as the block leaves them
connect_lookup(hsn, hid, remote, re, ra) ==
    IF hsn # PyNone /\ hid # PyNone
    THEN [exc |-> "", msg |-> <<>>, sn |-> hsn, id |-> hid, looked |-> FALSE]
    ELSE IF remote = PyNone
    THEN [exc |-> ACF, msg |-> <<"Remote serial number from host was not found.">>,
          sn |-> hsn, id |-> hid, looked |-> FALSE]
    ELSE LET d == fetch_device_by_serial_number(remote, re, ra) IN
    IF d.exc # "" THEN [exc |-> d.exc, msg |-> <<>>, sn |-> remote, id |-> hid, looked |-> TRUE]
    ELSE IF Truthy(d.err)
    THEN [exc |-> ACF, msg |-> <<"Failed to fetch host ID. Error: ">> \o Fmt(d.err) \o <<".">>,
          sn |-> remote, id |-> hid, looked |-> TRUE]
    ELSE IF Get(d.device, "id", PyNone) = PyNone
    THEN [exc |-> ACF, msg |-> <<"Failed to find host ID for serial number: ">> \o Fmt(remote) \o <<".">>,
          sn |-> remote, id |-> hid, looked |-> TRUE]
    ELSE [exc |-> "", msg |-> <<>>, sn |-> remote, id |-> Get(d.device, "id", PyNone), looked |-> TRUE]

SerialNumber == PyStr(<<"123456789">>)

OptionSets ==
    [username : {PyNone, PyStr(<<"user">>)}, password : {PyNone, PyStr(<<"secret">>)},
     organization : {PyNone, PyStr(<<"ZPE">>), PyStr(<<"Other">>)}]

AuthResponses ==
    { Response(200, <<"OK">>, JsonText([company |-> [business_name |-> PyStr(<<"ZPE">>)]])),
      Response(200, <<"OK">>, JsonText(EmptyObj)),
      Response(200, <<"OK">>, BadText),
      Response(401, <<"Unauthorized">>, BadText) }

CompanyResponses ==
    { Response(200, <<"OK">>, JsonText(<<[business_name |-> PyStr(<<"Other">>), id |-> PyStr(<<"7">>)]>>)),
      Response(200, <<"OK">>, JsonText(<<[business_name |-> PyStr(<<"ZPE">>), id |-> PyStr(<<"1">>)]>>)),
      Response(403, <<"Forbidden">>, BadText) }

SwitchResponses ==
    { Response(200, <<"OK">>, JsonText(EmptyObj)), Response(403, <<"Forbidden">>, BadText) }

LogoutResponses ==
    { Response(200, <<"OK">>, EmptyText), Response(401, <<"Unauthorized">>, BadText) }

Device(sn, id, status) == [serial_number |-> sn, id |-> PyStr(<<id>>), device_status |-> PyStr(<<status>>)]

SearchResponses ==
    { Response(200, <<"OK">>, JsonText([list |-> <<Device(SerialNumber, "4321", "Online")>>])),
      Response(200, <<"OK">>, JsonText([list |-> <<Device(SerialNumber, "4321", "Failover")>>])),
      Response(200, <<"OK">>, JsonText([list |-> <<Device(SerialNumber, "4321", "Offline")>>])),
      Response(200, <<"OK">>, JsonText([list |-> <<[serial_number |-> SerialNumber, device_status |-> PyStr(<<"Online">>)]>>])),
      Response(200, <<"OK">>, JsonText([list |-> <<Device(PyStr(<<"999">>), "1", "Online")>>])),
      Response(200, <<"OK">>, JsonText([list |-> <<>>])),
      Response(200, <<"OK">>, JsonText(EmptyObj)),
      Response(200, <<"OK">>, BadText),
      Response(404, <<"Not Found">>, BadText) }

\* the search among the available devices is requested only when the
\* search among the enrolled ones found nothing
AvailableFor(re) ==
    IF Settled(search_device(remote_addr, re)) THEN {NoResponse} ELSE SearchResponses

InitConnect ==
    /\ pc = "idle"
    /\ raised = NoException
    /\ host_zpecloud_id = PyNone
    /\ OperationIdle
    /\ api_session = "none"
    /\ host_serial_number = PyNone
    /\ remote_addr \in {PyNone, SerialNumber}
    /\ options \in OptionSets
    /\ api_log = <<>>
    /\ organization_name = PyNone
    /\ last_lookup = NoLookup
    /\ n_session_ops = 0
    /\ CodecIdle /\ UpgradeIdle /\ PairIdle /\ MoreIdle

\* everything of the operation but op and the count of warnings
OperationLocals == <<become, executable, timeout_wait_job_finish, max_delay_wait_job_finish,
                     max_file_size_put_file, cmd, profile_content, profile_id, job_id, result, local_out,
                     Requests, Poller, last_delete,
                     n_create, n_apply, n_get_job, n_output_get, n_sleep, n_delete, n_clock, steps>>

\* _connect up to "if self._api_session is None"
Connect ==
    /\ pc = "idle"
    /\ n_session_ops < MaxOps
    /\ n_session_ops' = n_session_ops + 1
    /\ op' = "connect"
    /\ raised' = NoException
    /\ api_log' = <<>>
    /\ pc' = IF api_session = "none" THEN "create_api_session" ELSE "lookup"
    /\ UNCHANGED <<api_session, host_serial_number, host_zpecloud_id, remote_addr, options,
                   organization_name, last_lookup, warnings, OperationLocals, Codec, Upgrade, Pair, More>>

CreateApiSession(ra, rc, rs) ==
    /\ pc = "create_api_session"
    /\ LET s == _create_api_session(options, ra, rc, rs) IN
       /\ api_session' = s.session
       /\ organization_name' = s.org
       /\ api_log' = api_log \o s.log
       /\ IF s.exc # ""
          THEN pc' = "idle" /\ raised' = Exception(s.exc, s.msg)
          ELSE pc' = "lookup" /\ UNCHANGED raised
    /\ UNCHANGED <<op, host_serial_number, host_zpecloud_id, remote_addr, options, last_lookup,
                   n_session_ops, warnings, OperationLocals, Codec, Upgrade, Pair, More>>

Lookup(re, ra) ==
    /\ pc = "lookup"
    /\ pc' = "idle"
    /\ LET c == connect_lookup(host_serial_number, host_zpecloud_id, remote_addr, re, ra) IN
       /\ host_serial_number' = c.sn
       /\ host_zpecloud_id' = c.id
       /\ raised' = IF c.exc # "" THEN Exception(c.exc, c.msg) ELSE raised
       /\ api_log' = IF c.looked THEN Append(api_log, "fetch_device_by_serial_number") ELSE api_log
       /\ last_lookup' = IF c.looked THEN [enrolled |-> re, available |-> ra] ELSE last_lookup
    /\ UNCHANGED <<op, api_session, remote_addr, options, organization_name,
                   n_session_ops, warnings, OperationLocals, Codec, Upgrade, Pair, More>>

\* close: the logout request is made when there is a session, and its
\* error is logged; self._api_session is left as it is
Close(r) ==
    /\ pc = "idle"
    /\ n_session_ops < MaxOps
    /\ n_session_ops' = n_session_ops + 1
    /\ op' = "close"
    /\ raised' = NoException
    /\ api_log' = IF api_session = "session" THEN <<"logout">> ELSE <<>>
    /\ warnings' = IF api_session = "session" /\ Truthy(logout(r)[2]) THEN warnings + 1 ELSE warnings
    /\ UNCHANGED <<pc, api_session, host_serial_number, host_zpecloud_id, remote_addr, options,
                   organization_name, last_lookup, OperationLocals, Codec, Upgrade, Pair, More>>

\* reset: self.close(), then self._connect() up to "if self._api_session is None"
Reset(r) ==
    /\ pc = "idle"
    /\ n_session_ops < MaxOps
    /\ n_session_ops' = n_session_ops + 1
    /\ op' = "reset"
    /\ raised' = NoException
    /\ api_log' = IF api_session = "session" THEN <<"logout">> ELSE <<>>
    /\ warnings' = IF api_session = "session" /\ Truthy(logout(r)[2]) THEN warnings + 1 ELSE warnings
    /\ pc' = IF api_session = "none" THEN "create_api_session" ELSE "lookup"
    /\ UNCHANGED <<api_session, host_serial_number, host_zpecloud_id, remote_addr, options,
                   organization_name, last_lookup, OperationLocals, Codec, Upgrade, Pair, More>>

LogoutFor == IF api_session = "session" THEN LogoutResponses ELSE {NoResponse}

NextConnect ==
    \/ Connect
    \/ \E ra \in AuthResponses : \E rc \in CompanyResponses : \E rs \in SwitchResponses :
          CreateApiSession(ra, rc, rs)
    \/ \E re \in SearchResponses : \E ra \in AvailableFor(re) : Lookup(re, ra)
    \/ \E r \in LogoutFor : Close(r)
    \/ \E r \in LogoutFor : Reset(r)

SpecConnect == InitConnect /\ [][NextConnect]_vars

(***************************************************************************)
(* Two exec_command calls against the same device, their requests          *)
(* interleaved.  Each call keeps profile_id and job_id in its own locals;  *)
(* ZPE Cloud keeps the profiles and the jobs, gives every profile and job  *)
(* an id of its own, and answers a request about an id with what it holds  *)
(* under that id.  uuid.uuid4() gives a name not given before.             *)
(***************************************************************************)
Callers == {1, 2}
Uuids == {"u1", "u2", "u3"}
ProfileIds == <<"101", "102">>
JobIds == <<"201", "202">>

NoCall == [pc |-> "create", name |-> <<>>, profile_id |-> PyNone, job_id |-> PyNone,
           polled |-> {}, deleted |-> {}, polls |-> 0, result |-> NoResult, raised |-> NoException]

InitPair ==
    /\ pc = "pair"
    /\ raised = NoException
    /\ host_zpecloud_id = PyStr(<<"dev-1">>)
    /\ OperationIdle
    /\ ops = [k \in Callers |-> NoCall]
    /\ cloud = [profiles |-> {}, gone |-> {}, jobs |-> {}, n_profiles |-> 0, n_jobs |-> 0, last_profile |-> PyNone]
    /\ CodecIdle /\ SessionReady /\ UpgradeIdle /\ MoreIdle

PairRest == <<pc, raised, host_zpecloud_id, Operation, Codec, Session, Upgrade, More>>

\* the script both calls send
PairScript == _wrapper_exec_command(<<"su ansible", " -c ", "'uptime'">>, TRUE).val

\* what the job of a profile prints
OutputOf(name) == PyBytes(<<"output of ">> \o name)

\* profile_id = self._create_profile(profile_content); ok: the upload is accepted
PairCreate(k, u, ok) ==
    /\ ops[k].pc = "create"
    /\ \A j \in Callers : ops[j].name # <<"ansible_", u>>
    /\ LET name == <<"ansible_", u>>
           id == PyStr(<<ProfileIds[cloud.n_profiles + 1]>>)
           r == IF ok THEN Response(201, <<"Created">>, JsonText([id |-> id]))
                ELSE Response(500, <<"Internal Server Error">>, BadText)
           c == _create_profile(PairScript, r)
       IN /\ cloud' = IF ok
                      THEN [cloud EXCEPT !.profiles = @ \cup {[id |-> id, name |-> name, by |-> k]},
                                         !.n_profiles = @ + 1, !.last_profile = id]
                      ELSE cloud
          /\ ops' = [ops EXCEPT ![k] =
                        IF c.exc # ""
                        THEN [@ EXCEPT !.pc = "raised", !.name = name, !.raised = Exception(c.exc, c.msg)]
                        ELSE [@ EXCEPT !.pc = "apply", !.name = name, !.profile_id = c.val]]
    /\ UNCHANGED PairRest

\* job_id = self._apply_profile(self.host_zpecloud_id, profile_id)
PairApply(k) ==
    /\ ops[k].pc = "apply"
    /\ LET known == ops[k].profile_id \notin cloud.gone /\ \E p \in cloud.profiles : p.id = ops[k].profile_id
           jid == PyStr(<<JobIds[cloud.n_jobs + 1]>>)
           r == IF known THEN Response(200, <<"OK">>, JsonText([job_id |-> jid]))
                ELSE Response(404, <<"Not Found">>, BadText)
           a == _apply_profile(host_zpecloud_id, ops[k].profile_id, r)
       IN /\ cloud' = IF known
                      THEN [cloud EXCEPT !.jobs = @ \cup {[id |-> jid, profile |-> ops[k].profile_id, by |-> k]},
                                         !.n_jobs = @ + 1]
                      ELSE cloud
          /\ ops' = [ops EXCEPT ![k] =
                        IF a.exc # ""
                        THEN [@ EXCEPT !.pc = "raised", !.raised = Exception(a.exc, a.msg)]
                        ELSE [@ EXCEPT !.pc = "poll", !.job_id = a.val]]
    /\ UNCHANGED PairRest

\* the id of the job started last through the session
PollTarget_last_job(k) == PyStr(<<JobIds[cloud.n_jobs]>>)

\* self._wait_job_to_finish(job_id): the job_id of the call's locals
PollTarget(k) == ops[k].job_id

\* the profile id of the last profile created through the session
DeleteTarget_last_created(k) == cloud.last_profile

\* self._delete_profile(profile_id): the profile_id of the call's locals
DeleteTarget(k) == ops[k].profile_id

\* the name of the profile of a job
NameOfJob(jid) ==
    LET j == CHOOSE j \in cloud.jobs : j.id = jid
        p == CHOOSE p \in cloud.profiles : p.id = j.profile
    IN p.name

\* one iteration of the loop of _wait_job_to_finish; st: the status the job
\* has by now.  The return of exec_command follows a failure at once.
PairPoll(k, st) ==
    /\ ops[k].pc = "poll"
    /\ ops[k].polls < MaxPairPolls
    /\ LET jid == PollTarget(k)
           known == \E j \in cloud.jobs : j.id = jid
           r == IF ~known THEN Response(404, <<"Not Found">>, BadText)
                ELSE IF st = "Started" THEN Response(200, <<"OK">>, JsonText(JobBody(st, PyStr(<<>>))))
                ELSE Response(200, <<"OK">>, JsonText(JobBody(st, Url)))
           out == IF known THEN [content |-> OutputOf(NameOfJob(jid))] ELSE NoOutput
           b == _wait_job_to_finish_body(jid, r, out)
       IN ops' = [ops EXCEPT ![k] =
                     IF b.kind = "raise"
                     THEN [@ EXCEPT !.pc = "raised", !.polled = @ \cup {jid}, !.polls = @ + 1,
                                    !.raised = Exception(b.exc, b.msg)]
                     ELSE IF b.kind = "continue"
                     THEN [@ EXCEPT !.polled = @ \cup {jid}, !.polls = @ + 1]
                     ELSE IF Truthy(b.err)
                     THEN [@ EXCEPT !.pc = "done", !.polled = @ \cup {jid}, !.polls = @ + 1,
                                    !.result = exec_failure(b.err)]
                     ELSE [@ EXCEPT !.pc = "delete", !.polled = @ \cup {jid}, !.polls = @ + 1,
                                    !.result = exec_success(b.content)]]
    /\ UNCHANGED <<cloud, PairRest>>

\* self._delete_profile(profile_id), then the return of exec_command
PairDelete(k) ==
    /\ ops[k].pc = "delete"
    /\ LET pid == DeleteTarget(k) IN
       /\ cloud' = [cloud EXCEPT !.gone = @ \cup {pid}]
       /\ ops' = [ops EXCEPT ![k] = [@ EXCEPT !.pc = "done", !.deleted = @ \cup {pid}]]
    /\ UNCHANGED PairRest

NextPair ==
    \/ \E k \in Callers : \E u \in Uuids : \E ok \in BOOLEAN : PairCreate(k, u, ok)
    \/ \E k \in Callers : PairApply(k)
    \/ \E k \in Callers : \E st \in {"Started", "Successful", "Failed"} : PairPoll(k, st)
    \/ \E k \in Callers : PairDelete(k)

SpecPair == InitPair /\ [][NextPair]_vars

(***************************************************************************)
(* The two pollers side by side: Connection._wait_job_to_finish and        *)
(* ActionModule._wait_job_to_finish of the software_upgrade action, each   *)
(* run on the same readings of the clock, the same answers to get_job and  *)
(* the same downloads, under the same ceiling and largest delay.  Each     *)
(* keeps the requests it sent and the sleeps it took in `trace`.           *)
(***************************************************************************)
MaxTwinPolls == 3   \* polls of each of the two pollers followed
MaxTwinJump == 2    \* most seconds between one reading of the clock and the next

AAF == "AnsibleActionFail"

\* the elif branch without its Timeout test
ActionFailureStatuses_no_timeout == {PyStr(<<"Failed">>), PyStr(<<"Cancelled">>)}

\* operation_status == "Failed" or ... == "Cancelled" or ... == "Timeout"
ActionFailureStatuses == {PyStr(<<"Failed">>), PyStr(<<"Cancelled">>), PyStr(<<"Timeout">>)}

\* one pass through the body of the while loop of
\* ActionModule._wait_job_to_finish
action_wait_job_to_finish_body(jid, r, out) ==
    LET g == get_job(r) IN
    IF Truthy(g.err)
    THEN Raised(AAF, <<"Failed to get status for job ">> \o Fmt(jid) \o <<". Err: ">> \o Fmt(g.err) \o <<".">>)
    ELSE LET content == json_loads(g.val) IN
    IF ~content.ok THEN Raised(content.exc, <<>>)
    ELSE LET operation_status == Get(Get(content.val, "operation", EmptyObj), "status", PyNone)
             operation_output_file_url == Get(content.val, "output_file", PyNone)
             with_output == Truthy(operation_output_file_url) /\ Len(operation_output_file_url.s) > 0
         IN
    IF operation_status.t = "none"
    THEN Raised(AAF, <<"Failed to get status for job ">> \o Fmt(jid) \o <<".">>)
    ELSE IF operation_status = PyStr(<<"Successful">>) /\ with_output
    THEN Returned(OutputText(out), PyNone, "Succeeded", TRUE)
    ELSE IF operation_status \in ActionFailureStatuses
    THEN IF with_output
         THEN Returned(PyNone, PyStr(<<"Job finish with status ">> \o operation_status.s \o <<". Output: ">> \o OutputText(out).s \o <<".">>), "Failed", TRUE)
         ELSE Returned(PyNone, PyStr(<<"Job finish with status ">> \o operation_status.s \o <<". Not output content.">>), "Failed", FALSE)
    ELSE Continue

\* a poller before its first line
NewPoller ==
    [pc |-> "wait", request_attempt |-> 0, start_time |-> 0, ret |-> NoRet, exc |-> "", msg |-> <<>>,
     trace |-> <<>>]

\* request_attempt = 0; start_time = time.time()
PollerEnter(s, t) ==
    IF s.pc # "wait" THEN s
    ELSE [s EXCEPT !.pc = "check", !.request_attempt = 0, !.start_time = t]

\* while (time.time() - start_time) <= timeout ... return None, "Timeout"
PollerCheck(s, t, timeout) ==
    IF s.pc # "check" THEN s
    ELSE IF loop_condition(t - s.start_time, timeout) THEN [s EXCEPT !.pc = "poll"]
    ELSE [s EXCEPT !.pc = "done", !.ret = [content |-> PyNone, err |-> PyStr(<<"Timeout">>)]]

\* the body of the loop, b what its get_job and its download came to
PollerPoll(s, b, max_delay) ==
    IF s.pc # "poll" THEN s
    ELSE IF b.kind = "raise"
    THEN [s EXCEPT !.pc = "raised", !.exc = b.exc, !.msg = b.msg, !.trace = Append(@, <<"get_job">>)]
    ELSE IF b.kind = "return"
    THEN [s EXCEPT !.pc = "done", !.ret = [content |-> b.content, err |-> b.err],
                   !.trace = @ \o (IF b.fetched THEN << <<"get_job">>, <<"download">> >> ELSE << <<"get_job">> >>)]
    ELSE [s EXCEPT !.pc = "check", !.request_attempt = @ + 1,
                   !.trace = @ \o << <<"get_job">>, <<"sleep", exponential_backoff_delay(s.request_attempt, max_delay)>> >>]

TwinRest == <<pc, raised, host_zpecloud_id, Operation, Codec, Session, Upgrade, Pair, run, pages>>

InitTwin ==
    /\ pc = "twin"
    /\ raised = NoException
    /\ host_zpecloud_id = PyStr(<<"dev-1">>)
    /\ OperationIdle
    /\ CodecIdle /\ SessionReady /\ UpgradeIdle /\ PairIdle
    /\ run = <<>> /\ pages = <<>>
    /\ \E timeout \in 0..MaxCeiling, max_delay \in 0..MaxDelayCfg :
          twin = [conn |-> NewPoller, act |-> NewPoller, now |-> 0, job_id |-> PyStr(<<"456">>),
                  timeout |-> timeout, max_delay |-> max_delay]

TwinAt(p) == twin.conn.pc = p \/ twin.act.pc = p

\* both pollers read the clock and start
TwinEnter(e) ==
    /\ pc = "twin" /\ TwinAt("wait")
    /\ twin' = [twin EXCEPT !.now = @ + e,
                            !.conn = PollerEnter(@, twin.now + e),
                            !.act = PollerEnter(@, twin.now + e)]
    /\ UNCHANGED TwinRest

\* both read the clock at the top of the loop
TwinCheck(e) ==
    /\ pc = "twin" /\ TwinAt("check")
    /\ twin' = [twin EXCEPT !.now = @ + e,
                            !.conn = PollerCheck(@, twin.now + e, twin.timeout),
                            !.act = PollerCheck(@, twin.now + e, twin.timeout)]
    /\ UNCHANGED TwinRest

\* both send get_job and are answered r; the download, if asked for, gives out
TwinPoll(r, out) ==
    /\ pc = "twin" /\ TwinAt("poll")
    /\ twin.conn.request_attempt < MaxTwinPolls /\ twin.act.request_attempt < MaxTwinPolls
    /\ twin' = [twin EXCEPT !.conn = PollerPoll(@, _wait_job_to_finish_body(twin.job_id, r, out), twin.max_delay),
                            !.act = PollerPoll(@, action_wait_job_to_finish_body(twin.job_id, r, out), twin.max_delay)]
    /\ UNCHANGED TwinRest

NextTwin ==
    \/ \E e \in 0..MaxTwinJump : TwinEnter(e)
    \/ \E e \in 0..MaxTwinJump : TwinCheck(e)
    \/ \E r \in JobResponses, out \in OutputResponses : TwinPoll(r, out)

SpecTwin == InitTwin /\ [][NextTwin]_vars

(***************************************************************************)
(* plugins/action/software_upgrade.py: one run of the action.  A version   *)
(* text is the list of the numbers between its dots and whether text       *)
(* stands around them, as in "v5.10.10 (Jan 15 2024 - 07:45:20)".  Each    *)
(* call of ZPECloudAPI and of the helpers of the action is answered by the *)
(* tuple it returns.                                                       *)
(***************************************************************************)
NoVersion == [t |-> "none", deco |-> FALSE, parts |-> <<>>]
Version(parts) == [t |-> "str", deco |-> FALSE, parts |-> parts]
Decorated(parts) == [t |-> "str", deco |-> TRUE, parts |-> parts]

\* pattern.fullmatch(version) with VERSION_REGEX [0-9]+\.[0-9]+\.[0-9]+
_validate_version(version) ==
    version.t = "str" /\ ~version.deco /\ Len(version.parts) = 3

\* pattern.search(version): the first major.minor.patch of the text, or None;
\* re raises TypeError on None
_extract_version(version) ==
    IF version.t = "none" THEN Raise("TypeError", <<>>)
    ELSE IF Len(version.parts) >= 3 THEN Return(Version(SubSeq(version.parts, 1, 3)))
    ELSE Return(NoVersion)

\* the id of the first entry with a name and an id whose version is the one asked for
RECURSIVE _get_version_id_from_list(_, _)
_get_version_id_from_list(version, content) ==
    IF content = <<>> THEN PyNone
    ELSE LET os_entry == Head(content)
             os_entry_name == Get(os_entry, "name", NoVersion)
             os_version_id == Get(os_entry, "id", PyNone)
         IN  IF os_entry_name.t = "none" \/ os_version_id.t = "none"
             THEN _get_version_id_from_list(version, Tail(content))
             ELSE IF _extract_version(os_entry_name).val = version THEN os_version_id
             ELSE _get_version_id_from_list(version, Tail(content))

\* _apply_software_upgrade: err of apply_software_upgrade, then the tuple of
\* _get_software_upgrade_job_id
_apply_software_upgrade(profile_id_, err, found) ==
    IF Truthy(err)
    THEN Raise(AAF, <<"Failed to apply software upgrade profile ">> \o Fmt(profile_id_) \o <<" to device. Error: ">> \o Fmt(err) \o <<".">>)
    ELSE IF Truthy(found[2])
    THEN Raise(AAF, <<"Failed to fetch job for software upgrade. Error: ">> \o Fmt(found[2]) \o <<".">>)
    ELSE Return(found[1])

Unset == "unset"
NoTaskResult == [failed |-> Unset, changed |-> Unset, skipped |-> Unset, msg |-> <<>>]

NoRun ==
    [pc |-> "start", version |-> NoVersion, allow_downgrade |-> FALSE, device |-> EmptyObj,
     current_version |-> NoVersion, os_version_id |-> PyNone, job_id |-> PyNone, detail |-> NoneText,
     result |-> NoTaskResult, exc |-> "", msg |-> <<>>, calls |-> <<>>]

RunRaise(r, cls, msg) == [r EXCEPT !.pc = "raised", !.exc = cls, !.msg = msg]

\* result["skipped"] = True; result["msg"] = "Software downgrade is not allowed. ..."
downgrade_refused(cur, version) ==
    [NoTaskResult EXCEPT !.skipped = "True",
                         !.msg = <<"Software downgrade is not allowed.", " Current version: ", cur, ". Desired version: ", version, ".">>]

\* run, from its first line to the test of the downgrade
run_start(version, allow_downgrade, remote, session_ok, dev) ==
    LET r0 == [NoRun EXCEPT !.version = version, !.allow_downgrade = allow_downgrade] IN
    IF ~_validate_version(version)
    THEN RunRaise(r0, AAF, <<"NG OS version was not provided, or does not match the expected format.">>)
    ELSE IF remote.t = "none"
    THEN RunRaise(r0, AAF, <<"Remote serial number from host was not found.">>)
    ELSE IF ~session_ok
    THEN RunRaise(r0, AAF, <<"Failed to authenticate on ZPE Cloud.">>)
    ELSE LET r1 == [r0 EXCEPT !.calls = <<"fetch_device_by_serial_number">>] IN
    IF Truthy(dev[2])
    THEN RunRaise(r1, AAF, <<"Failed to fetch device in ZPE Cloud. Error: ">> \o Fmt(dev[2]) \o <<".">>)
    ELSE LET device == dev[1]
             r2 == [r1 EXCEPT !.device = device]
         IN
    IF Get(device, "id", PyNone).t = "none"
    THEN RunRaise(r2, AAF, <<"Failed to get device ID.">>)
    ELSE IF Get(device, "version", NoVersion).t = "none"
    THEN RunRaise(r2, AAF, <<"Failed to get current device version.">>)
    ELSE LET current_version == _extract_version(device.version).val
             r3 == [r2 EXCEPT !.current_version = current_version]
         IN
    IF version = current_version
    THEN [r3 EXCEPT !.pc = "returned",
                    !.result = [NoTaskResult EXCEPT !.changed = "False", !.msg = <<"Device already on Nodegrid version ", version, ".">>]]
    ELSE IF current_version.t = "none"
    THEN RunRaise(r3, "AttributeError", <<"'NoneType' object has no attribute 'split'">>)
    ELSE LET iu == _is_upgrade(current_version.parts, version.parts) IN
    IF Truthy(iu[2])
    THEN RunRaise(r3, AAF, <<"Failed to compare current NG OS version to desired version.">>)
    ELSE IF iu[1] # "True" /\ ~allow_downgrade
    THEN [r3 EXCEPT !.pc = "returned", !.result = downgrade_refused(current_version, version)]
    ELSE [r3 EXCEPT !.pc = "os"]

\* os_versions, err = get_available_os_version(); _get_version_id_from_list
run_os_version(r, os) ==
    LET r1 == [r EXCEPT !.calls = Append(@, "get_available_os_version")] IN
    IF Truthy(os[2])
    THEN RunRaise(r1, AAF, <<"Failed to get Nodegrid OS versions from ZPE Cloud.">>)
    ELSE LET os_version_id == _get_version_id_from_list(r.version, os[1]) IN
         IF os_version_id.t = "none"
         THEN RunRaise(r1, AAF, <<"Failed to get Nodegrid OS version ID.">>)
         ELSE [r1 EXCEPT !.pc = "apply", !.os_version_id = os_version_id]

\* job_id = self._apply_software_upgrade(self.host_zpecloud_id, os_version_id)
run_apply(r, err, found) ==
    LET r1 == [r EXCEPT !.calls = Append(@, "apply_software_upgrade")]
        j == _apply_software_upgrade(r.os_version_id, err, found)
    IN  IF j.exc # "" THEN RunRaise(r1, j.exc, j.msg)
        ELSE [r1 EXCEPT !.pc = "wait", !.job_id = j.val]

\* job_output, err = self._wait_job_to_finish(job_id)
run_wait(r, w) ==
    LET r1 == [r EXCEPT !.calls = Append(@, "get_job")] IN
    IF Truthy(w.err)
    THEN RunRaise(r1, AAF, <<"Failed to apply software upgrade. Error: ">> \o Fmt(w.err) \o <<".">>)
    ELSE [r1 EXCEPT !.pc = "detail"]

\* the task reported as changed whatever the device runs
upgrade_result_unchecked(version_after_op, version) ==
    [NoTaskResult EXCEPT !.failed = "False", !.changed = "True",
                         !.msg = <<"Device was upgraded to Nodegrid version ", version, ".">>]

\* if version_after_op == version: failed False, changed True; else: failed
\* True, changed False
upgrade_result(version_after_op, version) ==
    IF version_after_op = version
    THEN [NoTaskResult EXCEPT !.failed = "False", !.changed = "True",
                              !.msg = <<"Device was upgraded to Nodegrid version ", version, ".">>]
    ELSE [NoTaskResult EXCEPT !.failed = "True", !.changed = "False",
                              !.msg = <<"Failed to upgrade device to Nodegrid version ", version, ".">>]

\* the read back of the device and the result of the task
run_detail(r, d) ==
    LET r1 == [r EXCEPT !.calls = Append(@, "get_device_detail"), !.detail = d[1]] IN
    IF Truthy(d[2])
    THEN RunRaise(r1, AAF, <<"Failed to get device detail. Error: ">> \o Fmt(d[2]) \o <<".">>)
    ELSE LET content == json_loads(d[1]) IN
    IF ~content.ok THEN RunRaise(r1, content.exc, <<>>)
    ELSE LET version_after_op == Get(content.val, "version", NoVersion) IN
    IF r.current_version.t = "none"
    THEN RunRaise(r1, AAF, <<"Failed to get current device version.">>)
    ELSE LET x == _extract_version(version_after_op) IN
    IF x.exc # "" THEN RunRaise(r1, x.exc, x.msg)
    ELSE [r1 EXCEPT !.pc = "returned", !.result = upgrade_result(x.val, r.version)]

\* what the task asks for and what ZPE Cloud answers
DesiredVersions == {NoVersion, Version(<<6, 0, 0>>), Version(<<5, 10, 10>>), Version(<<6, 0>>), Decorated(<<6, 0, 0>>)}

ReportedVersions ==
    {Decorated(<<6, 1, 0>>), Version(<<6, 1, 0>>), Version(<<6, 1>>), Version(<<5, 9, 10>>),
     Decorated(<<5, 10, 10>>), Decorated(<<6, 0, 0>>), Decorated(<<>>)}

DeviceLookups ==
    { <<EmptyObj, PyStr(<<"Not Found">>)>>,
      <<[version |-> Version(<<6, 1, 0>>)], PyNone>>,
      <<[id |-> PyStr(<<"567">>)], PyNone>>,
      <<[id |-> PyStr(<<"567">>), version |-> NoVersion], PyNone>> }
    \cup { <<[id |-> PyStr(<<"567">>), version |-> v], PyNone>> : v \in ReportedVersions }

OsVersionLists ==
    { << <<>>, PyStr(<<"Forbidden">>)>>,
      << <<>>, PyNone>>,
      << <<[id |-> PyStr(<<"11">>), name |-> Decorated(<<5, 9, 10>>)], [name |-> Decorated(<<6, 0, 0>>)],
           [id |-> PyStr(<<"12">>), name |-> Decorated(<<5, 10, 10>>)], [id |-> PyStr(<<"13">>), name |-> Decorated(<<6, 0, 0>>)]>>,
         PyNone>> }

JobSearches == { <<PyStr(<<"999">>), PyNone>>, <<PyNone, PyStr(<<"Job ID not found.">>)>> }

WaitResults ==
    { [content |-> PyStr(<<"Success">>), err |-> PyNone],
      [content |-> PyNone, err |-> PyStr(<<"Timeout">>)],
      [content |-> PyNone, err |-> PyStr(<<"Job finish with status ", "Failed", ". Not output content.">>)] }

DeviceDetails ==
    { <<NoneText, PyStr(<<"Not Found">>)>>, <<BadText, PyNone>>, <<JsonText(EmptyObj), PyNone>>,
      <<JsonText([version |-> NoVersion]), PyNone>> }
    \cup { <<JsonText([version |-> v]), PyNone>> : v \in ReportedVersions }

RunRest == <<pc, raised, host_zpecloud_id, Operation, Codec, Session, Upgrade, Pair, twin, pages>>

InitRun ==
    /\ pc = "run"
    /\ raised = NoException
    /\ host_zpecloud_id = PyStr(<<"dev-1">>)
    /\ OperationIdle
    /\ CodecIdle /\ SessionReady /\ UpgradeIdle /\ PairIdle
    /\ twin = <<>> /\ pages = <<>>
    /\ run = NoRun

RunStart(version, allow_downgrade, remote, session_ok, dev) ==
    /\ pc = "run" /\ run.pc = "start"
    /\ run' = run_start(version, allow_downgrade, remote, session_ok, dev)
    /\ UNCHANGED RunRest

RunOsVersion(os) ==
    /\ pc = "run" /\ run.pc = "os"
    /\ run' = run_os_version(run, os)
    /\ UNCHANGED RunRest

RunApply(err, found) ==
    /\ pc = "run" /\ run.pc = "apply"
    /\ run' = run_apply(run, err, found)
    /\ UNCHANGED RunRest

RunWait(w) ==
    /\ pc = "run" /\ run.pc = "wait"
    /\ run' = run_wait(run, w)
    /\ UNCHANGED RunRest

RunDetail(d) ==
    /\ pc = "run" /\ run.pc = "detail"
    /\ run' = run_detail(run, d)
    /\ UNCHANGED RunRest

NextRun ==
    \/ \E version \in DesiredVersions, allow_downgrade \in BOOLEAN, remote \in {PyNone, PyStr(<<"1234">>)},
          session_ok \in BOOLEAN, dev \in DeviceLookups :
            RunStart(version, allow_downgrade, remote, session_ok, dev)
    \/ \E os \in OsVersionLists : RunOsVersion(os)
    \/ \E err \in {PyNone, PyStr(<<"Forbidden">>)}, found \in JobSearches : RunApply(err, found)
    \/ \E w \in WaitResults : RunWait(w)
    \/ \E d \in DeviceDetails : RunDetail(d)

SpecRun == InitRun /\ [][NextRun]_vars

(***************************************************************************)
(* SpecPages: one paginated list call of ZPECloudAPI (_get_devices,        *)
(* get_groups, get_sites, get_custom_fields, get_available_os_version).    *)
(* The five share one loop; they differ in the words of their messages.    *)
(* The server answers the request for an offset with a count and the items *)
(* offset+1 .. offset+n, with an object that lacks count or list, with     *)
(* text that is no JSON, or with a status other than 200.                  *)
(***************************************************************************)
MaxCount == 3       \* largest count a page reports
MaxPageLen == 2     \* most items in one page
MaxPageReqs == 3    \* the request counter stops counting here

PagedCalls == {"_get_devices", "get_groups", "get_sites", "get_custom_fields",
               "get_available_os_version"}

\* "Failed to retrieve <noun> count."
CountNoun(call) ==
    CASE call = "_get_devices" -> "device"
      [] call = "get_groups" -> "group"
      [] call = "get_sites" -> "site"
      [] call = "get_custom_fields" -> "custom field"
      [] call = "get_available_os_version" -> "Nodegrid versions"

\* "Failed to retrieve <noun> list."; get_sites says "group"
ListNoun(call) == IF call = "get_sites" THEN "group" ELSE CountNoun(call)

\* the items offset+1 .. offset+n
PageItems(offset, n) == [i \in 1..n |-> offset + i]

PageBodies(offset) ==
    { [count |-> c, list |-> PageItems(offset, n)] : c \in 0..MaxCount, n \in 0..MaxPageLen }
    \cup { [list |-> PageItems(offset, 1)], [count |-> 1] }

PageResponses(offset) ==
    { Response(200, <<"OK">>, JsonText(b)) : b \in PageBodies(offset) }
    \cup { Response(200, <<"OK">>, BadText),
           Response(500, <<"Internal Server Error">>, BadText),
           Response(500, <<>>, BadText) }

\* if len(items) >= count: break
page_is_last(items, count) == Len(items) >= count

\* one pass of the while True loop on the answer r to the request of
\* offset len(items): what the call returns or raises, or the list so far
paged_pass(call, items, r) ==
    LET ce == _get(r)
        j == json_loads(ce[1])
    IN  IF Truthy(ce[2])
        THEN [pc |-> "returned", items |-> items, none |-> TRUE, err |-> ce[2], exc |-> ""]
        ELSE IF ~j.ok
        THEN [pc |-> "raised", items |-> items, none |-> TRUE, err |-> PyNone, exc |-> j.exc]
        ELSE IF "count" \notin DOMAIN j.val
        THEN [pc |-> "returned", items |-> items, none |-> TRUE, exc |-> "",
              err |-> PyStr(<<"Failed to retrieve ", CountNoun(call), " count.">>)]
        ELSE IF "list" \notin DOMAIN j.val
        THEN [pc |-> "returned", items |-> items, none |-> TRUE, exc |-> "",
              err |-> PyStr(<<"Failed to retrieve ", ListNoun(call), " list.">>)]
        ELSE LET all == items \o j.val.list IN
             IF page_is_last(all, j.val.count)
             THEN [pc |-> "returned", items |-> all, none |-> FALSE, err |-> PyNone, exc |-> ""]
             ELSE [pc |-> "loop", items |-> all, none |-> TRUE, err |-> PyNone, exc |-> ""]

PagesRest == <<pc, raised, host_zpecloud_id, Operation, Codec, Session, Upgrade, Pair, twin, run>>

\* call: the paginated call; items: the list accumulated; offset: the
\* offset of the last request (-1 before the first); n_req: the requests
\* sent; got: the items the pages answered so far held; last: the last
\* answer; none, err, exc: what the call returned or raised
InitPages ==
    /\ pc = "pages"
    /\ raised = NoException
    /\ host_zpecloud_id = PyStr(<<"dev-1">>)
    /\ OperationIdle
    /\ CodecIdle /\ SessionReady /\ UpgradeIdle /\ PairIdle
    /\ twin = <<>> /\ run = <<>>
    /\ \E call \in PagedCalls :
        pages = [pc |-> "loop", call |-> call, items |-> <<>>, offset |-> -1, n_req |-> 0,
                 got |-> 0, last |-> NoResponse, none |-> TRUE, err |-> PyNone, exc |-> ""]

\* one request of the loop and its answer
PagesPass(r) ==
    /\ pc = "pages" /\ pages.pc = "loop"
    /\ LET p == paged_pass(pages.call, pages.items, r)
           j == json_loads(r.text)
           n == IF r.status_code = 200 /\ j.ok /\ "list" \in DOMAIN j.val /\ "count" \in DOMAIN j.val
                THEN Len(j.val.list) ELSE 0
       IN  pages' = [pages EXCEPT !.pc = p.pc, !.items = p.items, !.none = p.none,
                                  !.err = p.err, !.exc = p.exc,
                                  !.offset = Len(pages.items),
                                  !.n_req = UpTo(@, MaxPageReqs),
                                  !.got = @ + n,
                                  !.last = r]
    /\ UNCHANGED PagesRest

NextPages == \E r \in PageResponses(Len(pages.items)) : PagesPass(r)

SpecPages == InitPages /\ [][NextPages]_vars /\ WF_vars(NextPages)

(***************************************************************************)
(* Properties of _wait_job_to_finish.  They read the last get_job response *)
(* as ZPE Cloud sent it.                                                   *)
(***************************************************************************)
Answered(r) == r.status_code = 200 /\ r.text.kind = "text" /\ r.text.parses

HasStatus(r) ==
    /\ Answered(r)
    /\ "operation" \in DOMAIN r.text.obj
    /\ "status" \in DOMAIN r.text.obj.operation
    /\ r.text.obj.operation.status.t = "str"

StatusIs(r, st) == HasStatus(r) /\ r.text.obj.operation.status.s = <<st>>

HasOutputFile(r) ==
    /\ Answered(r)
    /\ "output_file" \in DOMAIN r.text.obj
    /\ r.text.obj.output_file.t = "str"
    /\ r.text.obj.output_file.s # <<>>

Polling == pc \in {"wait", "check", "poll"}

\* the downloaded output as text
Downloaded == [t |-> "str", s |-> last_output.content.s, enc |-> last_output.content.enc]

\* C1: once a poll is answered with status Successful and a non-empty
\* output_file, the poller has fetched that output exactly once and has
\* returned (output, None); every poll before slept, this one did not, and
\* the poller polls no more.
C1_SuccessfulWithOutput ==
    (StatusIs(last_resp, "Successful") /\ HasOutputFile(last_resp)) =>
        /\ ~Polling
        /\ outcome = "Succeeded"
        /\ n_output_get = 1
        /\ wait_ret = [content |-> Downloaded, err |-> PyNone]
        /\ n_sleep = n_get_job - 1

C1_Witness ==
    /\ StatusIs(last_resp, "Successful") /\ HasOutputFile(last_resp)
    /\ n_get_job = 3
    /\ last_output.content = PyBytes(<<"up 2 days">>)
    /\ wait_ret.content = PyStr(<<"up 2 days">>)

C3_FirstResponseWithoutStatus ==
    (n_get_job = 1 /\ Answered(last_resp) /\ ~HasStatus(last_resp)) =>
        /\ pc = "raised"
        /\ raised.exc = "AnsibleError"
        /\ outcome = "Raised"
        /\ wait_ret = NoRet
        /\ n_sleep = 0
        /\ n_output_get = 0

C3_Witness ==
    /\ n_get_job = 1
    /\ last_resp = Response(200, <<"OK">>, JsonText([operation |-> EmptyObj, output_file |-> Url]))
    /\ pc = "raised"
    /\ timeout_wait_job_finish = MaxCeiling

\* C4: when a get_job request fails, the first one or one after polls that
\* found the job pending, the poller raises at once: the request is not
\* sent again, no sleep follows it and nothing is returned.
C4_GetJobFails ==
    (n_get_job > 0 /\ last_resp.status_code # 200) =>
        /\ pc = "raised"
        /\ raised # NoException
        /\ outcome = "Raised"
        /\ wait_ret = NoRet
        /\ n_sleep = n_get_job - 1
        /\ n_output_get = 0

C4_Witness ==
    /\ n_get_job = 3
    /\ last_resp.status_code = 404
    /\ status_log = <<"Sending", "Started", "-">>
    /\ pc = "raised"

\* C5: for a job that stays pending, a poll follows a check of the clock
\* exactly when the time gone by since the start is at most the ceiling,
\* the ceiling itself included; the first check beyond it returns
\* (None, "Timeout") and no get_job request follows.
C5_PollsUpToCeiling ==
    /\ pc = "poll" => now - start_time <= timeout_wait_job_finish
    /\ outcome = "PollTimeout" =>
            /\ now - start_time > timeout_wait_job_finish
            /\ ~Polling
            /\ wait_ret = [content |-> PyNone, err |-> PyStr(<<"Timeout">>)]
            /\ n_get_job = n_sleep
            /\ n_clock = n_get_job + 2
            /\ n_output_get = 0

C5_Witness ==
    /\ outcome = "PollTimeout"
    /\ timeout_wait_job_finish = 2
    /\ max_delay_wait_job_finish = 1
    /\ now - start_time = 3
    /\ n_get_job = 3

(***************************************************************************)
(* Properties of exec_command, put_file and fetch_file.                    *)
(***************************************************************************)
Ended == pc \in {"returned", "raised"}

PollerEnded == outcome \in {"Succeeded", "Failed", "PollTimeout"}

AsBytes(v) == [t |-> "bytes", s |-> v.s, enc |-> v.enc]

\* C6: an operation sends at most one create request and at most one apply
\* request, and once the poller has seen the job end, or has timed out, no
\* get_job request is sent any more.
C6_OneCreateOneApply ==
    /\ [](n_create <= 1 /\ n_apply <= 1)
    /\ [][PollerEnded => n_get_job' = n_get_job]_vars

C6_Witness ==
    /\ pc = "returned"
    /\ op = "put"
    /\ outcome = "Succeeded"
    /\ n_create = 1 /\ n_apply = 1
    /\ n_get_job = 3

\* C7: exec_command returns (0, output as bytes, b"") when the poller ended
\* Succeeded and (1, b"", error message as bytes) when it ended Failed or
\* PollTimeout, and ends in no other way after these outcomes.
C7_ExecResult ==
    (op = "exec" /\ PollerEnded) =>
        /\ pc \in {"after_wait", "returned"}
        /\ pc = "returned" =>
              IF outcome = "Succeeded"
              THEN result = [rc |-> 0, stdout |-> AsBytes(last_output.content), stderr |-> PyBytes(<<>>)]
              ELSE /\ wait_ret.err.t = "str"
                   /\ result = [rc |-> 1, stdout |-> PyBytes(<<>>), stderr |-> AsBytes(wait_ret.err)]

C7_Witness ==
    /\ op = "exec" /\ pc = "returned"
    /\ outcome = "PollTimeout"
    /\ result = [rc |-> 1, stdout |-> PyBytes(<<>>), stderr |-> PyBytes(<<"Timeout">>)]

\* C8: when an operation is over and its poller ended Succeeded, Failed or
\* PollTimeout, exactly one delete request has been sent.
C8_DeleteAfterEveryOutcome ==
    (Ended /\ PollerEnded) => n_delete = 1

Scenario ==
    /\ raised.exc = "" \/ ~Contains(raised.msg, <<"TemplateError">>)
    /\ n_create > 0 => profile_id # PyNone
    /\ n_apply > 0 => job_id # PyNone
    /\ n_get_job > 0 =>
          /\ status_log = <<"Sending", "Scheduled", "Started", "Successful">>
          /\ last_output.content = PyBytes(<<"up 2 days">>)

ScenarioResult ==
    /\ pc = "returned"
    /\ result = [rc |-> 0, stdout |-> PyBytes(<<"up 2 days">>), stderr |-> PyBytes(<<>>)]
    /\ n_create = 1 /\ n_apply = 1 /\ n_delete = 1

\* C10 as stated: exec_command("uptime"), over, against the scenario, has
\* returned (0, "up 2 days", "") after exactly one create, one apply and
\* one delete request.
C10_Uptime ==
    (Ended /\ op = "exec" /\ cmd = <<"uptime">> /\ Scenario) => ScenarioResult

\* C10 amended: exec_command of a command that holds the executable of the
\* connection, as "/bin/sh -c 'uptime'" does, or of any command when a
\* become plugin is set, over, against the scenario, has returned
\* (0, "up 2 days", "") after exactly one create, one apply and one delete
\* request.
C10_CommandWithExecutable ==
    (Ended /\ op = "exec" /\ (become \/ Contains(cmd, executable)) /\ Scenario) => ScenarioResult

C10_Witness ==
    /\ Ended /\ op = "exec" /\ ~become
    /\ cmd = <<"/bin/sh", " -c ", "'uptime'">>
    /\ Scenario
    /\ n_get_job = 4
    /\ ScenarioResult

NoRequest ==
    /\ n_create = 0 /\ n_apply = 0 /\ n_get_job = 0
    /\ n_output_get = 0 /\ n_delete = 0

\* C11: put_file of a local file that does not exist raises
\* AnsibleFileNotFound, and of one larger than max_file_size_put_file raises
\* AnsibleError, with no create, apply, poll or delete request made; a file
\* of exactly the limit is not rejected for its size and is read.
C11_PutFileRejectsBeforeRequests ==
    op = "put" =>
        /\ ~in_file.exists =>
              pc = "raised" /\ raised.exc = "AnsibleFileNotFound" /\ NoRequest
        /\ (in_file.exists /\ in_file.st_size > max_file_size_put_file) =>
              pc = "raised" /\ raised.exc = "AnsibleError" /\ NoRequest
        /\ (in_file.exists /\ in_file.st_size = max_file_size_put_file) =>
              IF in_file.read_ok
              THEN pc = "raised" => raised.msg \notin {<<"File or module does not exist.">>,
                                                      <<"Size of file is bigger than limit.">>,
                                                      <<"Failed to read file.">>}
              ELSE pc = "raised" /\ raised.msg = <<"Failed to read file.">> /\ NoRequest

C11_Witness ==
    /\ op = "put"
    /\ in_file.exists /\ in_file.st_size = max_file_size_put_file + 1
    /\ pc = "raised" /\ raised.exc = "AnsibleError"
    /\ NoRequest

HasPrefix(c, e) == Len(c) >= Len(e) /\ SubSeq(c, 1, Len(e)) = e

AfterPrefix(c, e) == SubSeq(c, Len(e) + 1, Len(c))

\* C12: for a command that begins with the executable of the connection,
\* handed to exec_command with no become plugin set, the command rendered
\* into the profile is "su ansible" followed by the rest of the command as
\* it was, occurrences of the executable in the rest included.
C12_PrefixReplacedRestKept ==
    (op = "exec" /\ ~become /\ HasPrefix(cmd, executable) /\ profile_content # NoScript) =>
        profile_content.context.command = <<"su ansible">> \o AfterPrefix(cmd, executable)

\* C13: a command that does not begin with the executable of the
\* connection, handed to exec_command with no become plugin set, is rejected
\* with an error: nothing is rendered and no create, apply, poll or delete
\* request is made.
C13_RejectedWithoutPrefix ==
    (op = "exec" /\ ~become /\ ~HasPrefix(cmd, executable)) =>
        /\ pc = "raised"
        /\ raised.exc = "AnsibleError"
        /\ profile_content = NoScript
        /\ NoRequest

KnownStatuses == {"Sending", "Scheduled", "Started", "Successful", "Failed", "Cancelled", "Timeout"}

\* C14: once a poll is answered with an operation.status that is none of
\* Sending, Scheduled, Started, Successful, Failed, Cancelled, Timeout, the
\* poller has raised on that response.
C14_UnknownStatusRaises ==
    (HasStatus(last_resp) /\ \A st \in KnownStatuses : ~StatusIs(last_resp, st)) =>
        pc = "raised" /\ outcome = "Raised"

\* the upload was answered 201 with a JSON object that holds an identifier
UploadGaveId(r) ==
    /\ r.status_code = 201
    /\ r.text.kind = "text" /\ r.text.parses
    /\ "id" \in DOMAIN r.text.obj
    /\ r.text.obj.id.t # "none"

\* C15: after the upload of the profile, _create_profile has returned the
\* identifier of the response when the upload was answered 201 with an
\* identifier, and otherwise (upload refused, body that is no JSON, no
\* identifier) has raised AnsibleError with no identifier kept and nothing
\* applied.
C15_CreateProfileIdOrError ==
    n_create = 1 =>
        IF UploadGaveId(last_create)
        THEN /\ profile_id = last_create.text.obj.id
             /\ pc = "raised" => n_apply = 1
        ELSE /\ pc = "raised"
             /\ raised.exc = "AnsibleError"
             /\ Head(raised.msg) \in {"Failed to create script profile in ZPE Cloud. Error: ",
                                       "Failed to retrieve ID from script profile."}
             /\ profile_id = PyNone
             /\ n_apply = 0

C15_Witness ==
    /\ n_create = 1
    /\ last_create = Response(201, <<"Created">>, JsonText(EmptyObj))
    /\ pc = "raised"
    /\ raised.msg = <<"Failed to retrieve ID from script profile.">>

\* the apply request was answered 200 with a JSON object that holds a job
\* identifier
ApplyGaveJobId(r) ==
    /\ r.status_code = 200
    /\ r.text.kind = "text" /\ r.text.parses
    /\ "job_id" \in DOMAIN r.text.obj
    /\ r.text.obj.job_id.t # "none"

\* C16: after the apply request, _apply_profile has raised unless the
\* request was answered 200 with a job identifier, so that the poller never
\* runs with a job identifier that is None.
C16_ApplyProfileJobIdOrError ==
    n_apply = 1 =>
        /\ ~ApplyGaveJobId(last_apply) => pc = "raised"
        /\ Polling => job_id # PyNone

\* the apply request was refused, or answered with a body that is no JSON
ApplyFailed(r) == r.status_code # 200 \/ ~r.text.parses

\* C17: an operation whose rendering failed has raised with no request
\* made; one whose create request failed has raised with no apply, poll or
\* delete request made; one whose apply request failed has raised with no
\* poll or delete request made.
C17_FailureEndsOperation ==
    /\ (op # "" /\ profile_content = NoScript) =>
            pc = "raised" /\ NoRequest /\ n_clock = 0
    /\ (n_create = 1 /\ ~UploadGaveId(last_create)) =>
            /\ pc = "raised"
            /\ n_apply = 0 /\ n_get_job = 0 /\ n_clock = 0 /\ n_output_get = 0 /\ n_delete = 0
    /\ (n_apply = 1 /\ ApplyFailed(last_apply)) =>
            /\ pc = "raised"
            /\ n_get_job = 0 /\ n_clock = 0 /\ n_output_get = 0 /\ n_delete = 0

C17_Witness ==
    /\ op = "exec"
    /\ pc = "raised"
    /\ Contains(raised.msg, <<"TemplateError">>)
    /\ NoRequest

\* C18: put_file and fetch_file, once past a poller that ended Failed or
\* PollTimeout, have raised AnsibleError "File transfer failed" carrying the
\* error of the poller, after one create request, one apply request and one
\* call of _wait_job_to_finish; they have not returned.
C18_TransferFailureRaises ==
    (op \in {"put", "fetch"} /\ outcome \in {"Failed", "PollTimeout"} /\ pc # "after_wait") =>
        /\ pc = "raised"
        /\ raised = Exception("AnsibleError", <<"File transfer failed. Error: ">> \o wait_ret.err.s \o <<".">>)
        /\ n_create = 1 /\ n_apply = 1
        /\ n_clock = 1 + n_get_job + (IF outcome = "PollTimeout" THEN 1 ELSE 0)
        /\ local_out = PyNone

C18_Witness ==
    /\ op = "put"
    /\ outcome = "Failed"
    /\ pc = "raised"
    /\ raised.msg = <<"File transfer failed. Error: ", "Job finish with status ", "Failed",
                      ". Output: ", "up 2 days", ".", ".">>

\* the job output is the base64 text of a zip archive that holds the file
FetchedArchive == outcome = "Succeeded" /\ last_output.content = GoodArchive

\* C19: fetch_file has touched the local destination only after the poller
\* ended Succeeded with an output that decodes and extracts; when it is
\* over after anything else (create, apply, poll, decode or extract failed)
\* it has raised and the local destination is as it was.
C19_FetchWritesOnlyAfterExtract ==
    op = "fetch" =>
        /\ local_out # PyNone => FetchedArchive
        /\ (Ended /\ ~FetchedArchive) => (pc = "raised" /\ local_out = PyNone)
        /\ pc = "returned" => local_out = PyBytes(<<"remote file">>)

C19_Witness ==
    /\ op = "fetch"
    /\ outcome = "Succeeded"
    /\ last_output.content = NotArchive
    /\ pc = "raised"
    /\ Head(raised.msg) = "Failed to extract file. Error: "
    /\ local_out = PyNone

RECURSIVE Doubled(_)
Doubled(n) == IF n <= 0 THEN 1 ELSE 2 * Doubled(n - 1)

\* (attempt, max_delay, expected) of test_exponential_backoff_delay
BackoffExamples ==
    { <<0, TestMaxDelay, 1>>, <<1, TestMaxDelay, 1>>, <<2, TestMaxDelay, 2>>, <<3, TestMaxDelay, 4>>,
      <<7, TestMaxDelay, 64>>, <<10, TestMaxDelay, 256>> }

\* C20: the delay slept is 1 for an attempt <= 0 and the smaller of
\* 2^(attempt-1) and max_delay for an attempt >= 1; (0,256) gives 1,
\* (1,256) 1, (3,256) 4, (7,256) 64 and (10,256) 256.
C20_BackoffDelay ==
    pc = "slept" =>
        /\ request_attempt <= 0 => now = 1
        /\ request_attempt >= 1 =>
              /\ now <= Doubled(request_attempt - 1)
              /\ now <= max_delay_wait_job_finish
              /\ now \in {Doubled(request_attempt - 1), max_delay_wait_job_finish}
        /\ \A e \in BackoffExamples :
              (request_attempt = e[1] /\ max_delay_wait_job_finish = e[2]) => now = e[3]

C20_Witness ==
    /\ pc = "slept"
    /\ request_attempt = 7
    /\ max_delay_wait_job_finish = TestMaxDelay
    /\ now = 64

\* C21: the delay slept between two polls is never above the configured
\* ceiling max_delay, whatever the attempt (0 included) and the ceiling
\* (ceilings below 1 included).
C21_DelayWithinCeiling ==
    pc = "slept" => now <= max_delay_wait_job_finish

Max(a, b) == IF a >= b THEN a ELSE b

\* C22 as stated: the PollTimeout outcome comes no later than the ceiling
\* plus the duration of one poll request after start_time.
C22_TimeoutWithinOneRequest ==
    outcome = "PollTimeout" => now - start_time <= timeout_wait_job_finish + MaxReqDur

\* C22 (amended): the PollTimeout outcome comes no later than the ceiling
\* plus one backoff delay (at most max_delay, 1 for a ceiling below 1) plus
\* the duration of one poll request after start_time.
C22_TimeoutWithinSleepAndRequest ==
    outcome = "PollTimeout" =>
        now - start_time <= timeout_wait_job_finish + Max(1, max_delay_wait_job_finish) + MaxReqDur

C22_Witness ==
    /\ outcome = "PollTimeout"
    /\ n_sleep >= 1
    /\ max_delay_wait_job_finish >= 1
    /\ now - start_time = timeout_wait_job_finish + max_delay_wait_job_finish + MaxReqDur

\* C26: when the first poll is answered with status Failed and a non-empty
\* output_file, the poller returns the fetched output as content with err
\* None, after that one poll and one download of the output.
C26_FailedOutputReturnedAsContent ==
    (StatusIs(last_resp, "Failed") /\ HasOutputFile(last_resp) /\ n_get_job = 1) =>
        /\ ~Polling
        /\ n_output_get = 1
        /\ wait_ret = [content |-> Downloaded, err |-> PyNone]

Called(i, name) == codec_trace[i][1] = name
RoundTrip(i) == codec_hist[i + 2] = [val |-> codec_hist[i].val, err |-> PyNone, raised |-> FALSE]

\* the round trips of C24 for the entry names ns
RoundTripsFor(ns) ==
    /\ \A i \in 1..Len(codec_trace) :
          (Called(i, "compress_file") /\ codec_trace[i][2] \in ns) => codec_hist[i + 1].err = PyNone
    /\ \A i \in 1..(Len(codec_trace) - 1) :
          /\ (Called(i, "compress_file") /\ codec_trace[i][2] \in ns
                /\ codec_trace[i + 1] = <<"extract_file", codec_trace[i][2]>>) => RoundTrip(i)
          /\ (Called(i, "encode_base64") /\ Called(i + 1, "decode_base64")) => RoundTrip(i)
          /\ (Called(i, "_process_put_file") /\ Called(i + 1, "_process_fetch_file")) => RoundTrip(i)

KeptNames == { n \in Names : n # "" /\ StoredName(n) = n }

IsArchive(v) == v.enc # <<>> /\ Head(v.enc).codec = "zip"
HasStray(v) == v.enc # <<>> /\ Head(v.enc) = B64StrayLayer

\* C25: extract_file on bytes that are no archive, extract_file on an
\* archive without the entry name, and decode_base64 on text with
\* characters outside the base64 alphabet each end in an error; the three
\* errors differ and none is an error of the transport.
C25_CodecFailuresAreErrors ==
    \A i \in 1..Len(codec_trace) :
        LET in == codec_hist[i].val
            out == codec_hist[i + 1]
        IN  /\ (Called(i, "extract_file") /\ ~IsArchive(in)) =>
                  out.err = PyStr(<<"Failed to extract data. Error: ", "File is not a zip file">>)
            /\ (Called(i, "extract_file") /\ IsArchive(in) /\ Head(in.enc).name # codec_trace[i][2]) =>
                  (out.err.t = "str" /\ out.err.s[2] = "There is no item named ")
            /\ (Called(i, "decode_base64") /\ HasStray(in)) =>
                  (out.err.t = "str" /\ out.err.s[1] = "Failed to decode data. Error: ")

\* next >= cur in the order of (major, minor, patch)
LexGE(next, cur) ==
    \/ next[1] > cur[1]
    \/ next[1] = cur[1] /\ next[2] > cur[2]
    \/ next[1] = cur[1] /\ next[2] = cur[2] /\ next[3] >= cur[3]

\* C30: _is_upgrade(cur, next) returns (True, None) when next >= cur in the
\* lexicographic order of (major, minor, patch), (False, None) when next is
\* lower, and (None, error) when a version has not exactly three parts;
\* 5.10.10 -> 6.0.3 is an upgrade, 5.1.1 -> 5.0.1 is not.
C30_IsUpgradeLexicographic ==
    pc = "upgraded" =>
        IF Len(cur_version) # 3 \/ Len(next_version) # 3
        THEN upgrade_ret[1] = "None" /\ upgrade_ret[2] # PyNone
        ELSE /\ upgrade_ret[2] = PyNone
             /\ upgrade_ret[1] = "True" <=> LexGE(next_version, cur_version)
             /\ upgrade_ret[1] = "False" <=> ~LexGE(next_version, cur_version)

\* a _connect, alone or as the second half of reset, has ended
ConnectEnded == pc = "idle" /\ op \in {"connect", "reset"}

Lookups == Cardinality({ i \in 1..Len(api_log) : api_log[i] = "fetch_device_by_serial_number" })

\* C27: once reset has ended (close, then _connect), an authentication
\* request was issued after the logout request.
C27_ResetAuthenticatesAfterLogout ==
    (pc = "idle" /\ op = "reset" /\ \E i \in 1..Len(api_log) : api_log[i] = "logout") =>
        \E i, j \in 1..Len(api_log) :
            i < j /\ api_log[i] = "logout" /\ api_log[j] = "authenticate_with_password"

\* what the lookup of the device gave
Looked == fetch_device_by_serial_number(remote_addr, last_lookup.enrolled, last_lookup.available)

\* the device is enrolled and Online or Failover
DeviceReady == can_apply_profile_on_device(remote_addr, last_lookup.enrolled).ok

\* C28: when the device that was looked up is not ready (not enrolled, or
\* neither Online nor Failover), _connect raises AnsibleConnectionFailure
\* "Nodegrid device is not ready to receive profiles via ZPE Cloud."; the
\* lookup was made once and host_serial_number and host_zpecloud_id are set.
C28_ConnectRaisesWhenNotReady ==
    (ConnectEnded /\ Lookups = 1 /\ Looked.exc = "" /\ ~Truthy(Looked.err)
        /\ Get(Looked.device, "id", PyNone) # PyNone /\ ~DeviceReady) =>
        /\ raised = Exception(ACF, <<"Nodegrid device is not ready to receive profiles via ZPE Cloud.">>)
        /\ host_serial_number = remote_addr
        /\ host_zpecloud_id = Looked.device.id

\* C29: in a _connect that finds the device not looked up yet: without a
\* remote address it raises AnsibleConnectionFailure and makes no lookup;
\* when the lookup returns an error, or a device without id, it raises
\* AnsibleConnectionFailure after that one lookup and host_zpecloud_id stays
\* unset; when it returns, host_serial_number is the remote address and
\* host_zpecloud_id the id of the device.
C29_ConnectLooksUpDevice ==
    [][(pc = "lookup" /\ pc' = "idle" /\ (host_serial_number = PyNone \/ host_zpecloud_id = PyNone)) =>
         /\ remote_addr = PyNone =>
               (raised'.exc = ACF /\ Lookups' = 0 /\ host_zpecloud_id' = PyNone)
         /\ (remote_addr # PyNone /\ Looked'.exc = "" /\ Truthy(Looked'.err)) =>
               (raised'.exc = ACF /\ Lookups' = 1 /\ host_zpecloud_id' = PyNone)
         /\ (remote_addr # PyNone /\ Looked'.exc = "" /\ ~Truthy(Looked'.err)
               /\ Get(Looked'.device, "id", PyNone) = PyNone) =>
               (raised'.exc = ACF /\ Lookups' = 1 /\ host_zpecloud_id' = PyNone)
         /\ raised' = NoException =>
               /\ Lookups' = 1
               /\ host_serial_number' = remote_addr
               /\ host_zpecloud_id' = Looked'.device.id
               /\ host_zpecloud_id' # PyNone
      ]_vars

C29_Witness ==
    /\ ConnectEnded
    /\ Lookups = 1
    /\ last_lookup.enrolled = Response(200, <<"OK">>,
          JsonText([list |-> <<[serial_number |-> SerialNumber, device_status |-> PyStr(<<"Online">>)]>>]))
    /\ raised = Exception(ACF, <<"Failed to find host ID for serial number: ", "123456789", ".">>)
    /\ host_serial_number = SerialNumber
    /\ host_zpecloud_id = PyNone

Created(k) == ops[k].profile_id # PyNone
Applied(k) == ops[k].job_id # PyNone

KthDelay(k, max_delay) == IF k <= 1 THEN 1 ELSE Min(Doubled(k - 2), max_delay)

\* a sleep of the poller: the step from the poll to the next check
SleepStep == pc = "poll" /\ pc' = "check"

\* C34: _wait_job_to_finish starts with attempt counter 0 and with the
\* clock just read as start time; when the (n+1)-th poll is the first one
\* answered with a terminal status, the run has sent n+1 get_job requests,
\* slept n times and read the clock n+2 times, and its k-th sleep lasted
\* exponential_backoff_delay(k-1, max_delay): 1, 1, 2, 4, ... up to
\* max_delay.
C34_PollsSleepsAndClockReads ==
    /\ [][pc = "wait" => (request_attempt' = 0 /\ start_time' = now /\ n_get_job' = 0 /\ n_sleep' = 0)]_vars
    /\ [][SleepStep => /\ n_sleep' = n_sleep + 1
                       /\ request_attempt' = n_sleep'
                       /\ now' - now = KthDelay(n_sleep', max_delay_wait_job_finish)]_vars
    /\ [](outcome \in {"Succeeded", "Failed"} =>
            /\ n_get_job = n_sleep + 1
            /\ n_clock = n_sleep + 2
            /\ request_attempt = n_sleep)

C34_Witness ==
    /\ outcome = "Succeeded"
    /\ start_time = 1
    /\ max_delay_wait_job_finish = 2
    /\ n_sleep = 3 /\ n_get_job = 4 /\ n_clock = 5
    /\ now - start_time = 4

\* a job answered Successful while its output_file is missing, null or empty
SuccessfulWithoutOutput(r) == StatusIs(r, "Successful") /\ ~HasOutputFile(r)

\* C36: a poll answered Successful with a missing, null or empty
\* output_file does not end the poller: it sleeps the backoff delay and
\* polls again; a run in which every poll was answered so ends in
\* PollTimeout, and the poller never returns Succeeded without an output
\* nor raises on such an answer.
C36_SuccessfulWithoutOutputIsPending ==
    /\ [][(pc = "poll" /\ SuccessfulWithoutOutput(last_resp')) =>
            /\ pc' = "check"
            /\ outcome' = "" /\ raised' = NoException /\ wait_ret' = NoRet
            /\ n_sleep' = n_sleep + 1
            /\ n_output_get' = n_output_get
            /\ now' - now = exponential_backoff_delay(request_attempt, max_delay_wait_job_finish)]_vars
    /\ [](SuccessfulWithoutOutput(last_resp) =>
            /\ outcome \in {"", "PollTimeout"}
            /\ pc # "raised"
            /\ n_output_get = 0)
    /\ []((SuccessfulWithoutOutput(last_resp) /\ ~Polling) =>
            /\ outcome = "PollTimeout"
            /\ wait_ret = [content |-> PyNone, err |-> PyStr(<<"Timeout">>)])

C36_Witness ==
    /\ outcome = "PollTimeout"
    /\ status_log = <<"Successful">>
    /\ last_resp = Response(200, <<"OK">>, JsonText(JobBody("Successful", PyNone)))
    /\ n_get_job = 3

(***************************************************************************)
(* The status of the HTTP responses.                                       *)
(***************************************************************************)
\* C40: a request answered with another status than its success code
\* (201 for the upload of the profile, 200 for apply and get_job, 204 for
\* the delete) is seen as failed by its caller, whatever the reason phrase
\* of the answer, the empty one included: after such a create, apply or
\* get_job the operation has raised and sent nothing further, and after
\* such a delete _delete_profile has logged its warning.
C40_NonSuccessStatusSeenAsFailure ==
    /\ (n_create > 0 /\ last_create.status_code # 201) => (pc = "raised" /\ n_apply = 0)
    /\ (n_apply > 0 /\ last_apply.status_code # 200) => (pc = "raised" /\ n_get_job = 0)
    /\ (n_get_job > 0 /\ last_resp.status_code # 200) => (pc = "raised" /\ n_output_get = 0 /\ n_delete = 0)
    /\ (n_delete > 0 /\ last_delete.status_code # 204) => warnings = 1

(***************************************************************************)
(* The order of the steps of an operation.                                 *)
(***************************************************************************)
\* an operation that went through without an error
Succeeded == pc = "returned" /\ outcome = "Succeeded"

\* C35: a successful operation went through render, create profile, apply
\* profile, wait for the job, delete profile, each once and in this order;
\* fetch_file decoded the output of the job before it deleted the profile;
\* no delete request is sent before the poller has ended.
C35_StepsInOrder ==
    /\ (Succeeded /\ op \in {"exec", "put"}) =>
            steps = <<"render", "create", "apply", "wait", "delete">>
    /\ (Succeeded /\ op = "fetch") =>
            SelectSeq(steps, LAMBDA s : s # "write") = <<"render", "create", "apply", "wait", "decode", "delete">>
    /\ n_delete > 0 => PollerEnded

(***************************************************************************)
(* The end of the poller.                                                  *)
(***************************************************************************)
\* C37 as stated: every run of _wait_job_to_finish returns or raises in
\* the end, whatever the job answers and whatever the ceiling and the
\* largest delay are (a largest delay of 0 included), when every poll is
\* answered and no time goes by but the time slept.
C37_PollerReturnsOrRaises == <>(pc \in {"after_wait", "raised"})

\* C37 (amended): every run returns or raises in the end when the largest
\* delay is at least 1, or the ceiling is below 1.
C37_PollerEndsWithDelayOfOne ==
    (max_delay_wait_job_finish >= 1 \/ timeout_wait_job_finish < 1) => <>(pc \in {"after_wait", "raised"})

C37_Witness ==
    /\ outcome = "PollTimeout"
    /\ max_delay_wait_job_finish = 1
    /\ timeout_wait_job_finish = MaxCeiling
    /\ n_sleep = MaxCeiling + 1
    /\ status_log = <<"Started">>

(***************************************************************************)
(* The poller of the connection plugin and the one of the action.          *)
(***************************************************************************)
\* C39: run on the same answers and the same readings of the clock, the
\* _wait_job_to_finish of the connection plugin and the one of the
\* software_upgrade action send the same get_job requests, make the same
\* downloads, sleep the same delays and end alike: the same tuple returned,
\* or an error raised at the same step with the same message, only the
\* class of the exception differing (AnsibleError, AnsibleActionFail).
C39_PollersEquivalent ==
    twin # <<>> =>
        /\ twin.conn.pc = twin.act.pc
        /\ twin.conn.trace = twin.act.trace
        /\ twin.conn.ret = twin.act.ret
        /\ twin.conn.msg = twin.act.msg
        /\ twin.conn.request_attempt = twin.act.request_attempt
        /\ twin.conn.start_time = twin.act.start_time
        /\ \/ twin.conn.exc = twin.act.exc
           \/ twin.conn.exc = "AnsibleError" /\ twin.act.exc = AAF

C39_Witness ==
    /\ twin # <<>>
    /\ twin.conn.pc = "done" /\ twin.act.pc = "done"
    /\ twin.conn.ret = [content |-> PyNone,
                        err |-> PyStr(<<"Job finish with status ", "Timeout", ". Output: ", "up 2 days", ".">>)]
    /\ twin.act.trace = << <<"get_job">>, <<"sleep", 1>>, <<"get_job">>, <<"sleep", 1>>, <<"get_job">>, <<"download">> >>

(***************************************************************************)
(* Properties of the software_upgrade action.                              *)
(***************************************************************************)
RunCalled(name) == \E i \in 1..Len(run.calls) : run.calls[i] = name

\* the device was found with an id and a version text, and the task asks
\* for a well-formed version
RunCompared ==
    /\ run # <<>> /\ run.pc # "start"
    /\ _validate_version(run.version)
    /\ Get(run.device, "id", PyNone).t = "str"
    /\ Get(run.device, "version", NoVersion).t = "str"

\* the major.minor.patch a version text holds, <<>> when it holds none
DeviceVersion(v) == IF v.t = "str" /\ Len(v.parts) >= 3 THEN SubSeq(v.parts, 1, 3) ELSE <<>>

\* C31: when the version asked for is lower than the one the device runs
\* and allow_downgrade is false, apply_software_upgrade is not called and
\* the result of the task is failed, with a message that holds "Software
\* downgrade is not allowed.".
C31_DowngradeRefusedAsFailure ==
    (/\ RunCompared
     /\ DeviceVersion(run.device.version) # <<>>
     /\ ~LexGE(run.version.parts, DeviceVersion(run.device.version))
     /\ ~run.allow_downgrade) =>
        /\ run.pc = "returned"
        /\ ~RunCalled("apply_software_upgrade")
        /\ run.result.failed = "True"
        /\ Contains(run.result.msg, <<"Software downgrade is not allowed.">>)

\* the device was read back after the job: get_device_detail answered with
\* a JSON object that holds a version text
ReadBack ==
    /\ run # <<>> /\ RunCalled("get_device_detail")
    /\ run.pc # "detail"
    /\ run.detail.kind = "text" /\ run.detail.parses
    /\ Get(run.detail.obj, "version", NoVersion).t = "str"

\* C32: after the upgrade job has ended well, run reports changed = True
\* exactly when the version of the device read back is the version asked
\* for, and failed = True with changed = False otherwise; so for upgrades
\* and for downgrades with allow_downgrade.
C32_ChangedIffVersionReadBack ==
    ReadBack =>
        /\ run.pc = "returned"
        /\ run.result.changed = "True" <=> DeviceVersion(run.detail.obj.version) = run.version.parts
        /\ run.result.changed = "True" => run.result.failed = "False"
        /\ run.result.changed # "True" => (run.result.failed = "True" /\ run.result.changed = "False")

C32_Witness ==
    /\ ReadBack
    /\ run.allow_downgrade
    /\ run.current_version = Version(<<6, 1, 0>>)
    /\ run.version = Version(<<6, 0, 0>>)
    /\ run.detail.obj.version = Decorated(<<6, 0, 0>>)
    /\ run.result.changed = "True"

\* C33: run fails with AnsibleActionFail, and with no other exception nor
\* a result, when the version text the device reports holds no
\* major.minor.patch, and when the device read back after the upgrade has
\* no version ("Failed to get current device version.").
C33_MissingVersionIsActionFail ==
    /\ (RunCompared /\ DeviceVersion(run.device.version) = <<>>) =>
            (run.pc = "raised" /\ run.exc = AAF)
    /\ (/\ run # <<>> /\ RunCalled("get_device_detail") /\ run.pc # "detail"
        /\ run.detail.kind = "text" /\ run.detail.parses
        /\ Get(run.detail.obj, "version", NoVersion).t = "none") =>
            (run.pc = "raised" /\ run.exc = AAF /\ run.msg = <<"Failed to get current device version.">>)


\* the last answer of the paginated call was a page: status 200 and an
\* object with count and list
PageCame ==
    /\ pages.last.status_code = 200
    /\ pages.last.text.parses
    /\ {"count", "list"} \subseteq DOMAIN pages.last.text.obj

\* the last answer was an error of the request
PageError == pages.last.status_code # 200

\* the last answer was an object without count or without list
PageLacks ==
    /\ pages.last.status_code = 200
    /\ pages.last.text.parses
    /\ ~({"count", "list"} \subseteq DOMAIN pages.last.text.obj)

PagesEnded == pages # <<>> /\ pages.pc \in {"returned", "raised"}

\* what C38 says of every state of a paginated call
PagesSafe ==
    (pages # <<>> /\ pages.n_req > 0) =>
        \* the request carried the number of items accumulated before it
        /\ pages.offset + (IF PageCame THEN Len(pages.last.text.obj.list) ELSE 0) = pages.got
        \* a page error, a missing count, a missing list: (None, error)
        /\ (PageError \/ PageLacks) =>
              /\ pages.pc = "returned"
              /\ pages.none
              /\ Truthy(pages.err)
        \* a page came: the call goes on, or has returned the whole list
        /\ PageCame =>
              \/ pages.pc = "loop"
              \/ /\ pages.pc = "returned" /\ ~pages.none /\ pages.err = PyNone
                 /\ Len(pages.items) >= pages.last.text.obj.count

\* C38: a paginated list call asks for page k with the offset equal to
\* the number of items accumulated from the pages before it, returns
\* (None, error) on a page error or a missing count or list, and ends for
\* every sequence of pages, with at least as many items as the last count
\* reported.
C38_PagedCallsReturn == [](PagesSafe) /\ <>(PagesEnded)

\* the paginated call ends, whatever the pages
PagesEnd == <>(PagesEnded)

====
